---- MODULE Spec2Model ----
(***************************************************************************)
(* Verification model of freecad_mcp: the embedded-JSON extractor and the  *)
(* Spatial Contract placement tools of contract_tools.py.                  *)
(*                                                                         *)
(* Text is a sequence of one-character strings.  Contract lengths are in   *)
(* meters, native (document) lengths in millimeters.                       *)
(***************************************************************************)
EXTENDS Integers, Sequences, FiniteSets, TLC

VARIABLES output, built, extracted, objects, options, last, ncalls, args, ret,
          connection

exvars == <<output, built, extracted>>
docvars == <<objects, options, last, ncalls>>
callvars == <<args, ret>>
vars == <<output, built, extracted, objects, options, last, ncalls, args, ret, connection>>

(***************************************************************************)
(* Characters                                                              *)
(***************************************************************************)
LB == "{"
RB == "}"
QT == "\""
BS == "\\"
CL == ":"
CM == ","
SP == " "

(* Bounds of the extractor inputs *)
MaxRawLen == 5
MaxStrLen == 1

RawChars == {LB, RB, QT, BS, "a"}
StrChars == {LB, RB, QT, BS, "a"}

RECURSIVE StringsUpTo(_, _)
StringsUpTo(chars, n) ==
    IF n = 0 THEN {<<>>}
    ELSE LET shorter == StringsUpTo(chars, n - 1)
         IN  shorter \cup {Append(s, c) : s \in shorter, c \in chars}

(***************************************************************************)
(* JSON values: a string value or an object (an insertion-ordered list of  *)
(* <<key, value>> members with distinct keys, as a Python dict).           *)
(***************************************************************************)
JStr(s) == [t |-> "str", s |-> s, items |-> <<>>]
JObj(items) == [t |-> "obj", s |-> <<>>, items |-> items]

(* json.dumps: str -> "..." with \" and \\ escaped; dict -> {"k": v, ...}   *)
RECURSIVE dumps_chars(_)
dumps_chars(s) ==
    IF s = <<>> THEN <<>>
    ELSE LET c == Head(s)
         IN  (IF c = QT \/ c = BS THEN <<BS, c>> ELSE <<c>>) \o dumps_chars(Tail(s))

dumps_str(s) == <<QT>> \o dumps_chars(s) \o <<QT>>

RECURSIVE json_dumps(_)
RECURSIVE dumps_items(_)
dumps_items(items) ==
    IF items = <<>> THEN <<>>
    ELSE dumps_str(Head(items)[1]) \o <<CL, SP>> \o json_dumps(Head(items)[2])
         \o (IF Tail(items) = <<>> THEN <<>> ELSE <<CM, SP>> \o dumps_items(Tail(items)))

json_dumps(v) ==
    IF v.t = "str" THEN dumps_str(v.s)
    ELSE <<LB>> \o dumps_items(v.items) \o <<RB>>

(***************************************************************************)
(* json.loads on the characters above: objects and strings, " " the only   *)
(* whitespace.  Any other character outside a string, an escape other than *)
(* \" or \\, a missing ':' or ',', or an unterminated string or object is  *)
(* a JSONDecodeError.                                                      *)
(***************************************************************************)
JNull == [t |-> "null", s |-> <<>>, items |-> <<>>]
ParseFail == [ok |-> FALSE, val |-> JNull, next |-> 0]
ParseOk(v, n) == [ok |-> TRUE, val |-> v, next |-> n]

RECURSIVE skip_ws(_, _)
skip_ws(s, i) == IF i <= Len(s) /\ s[i] = SP THEN skip_ws(s, i + 1) ELSE i

(* the body of a string literal from position i, after the opening quote *)
RECURSIVE scanstring(_, _, _)
scanstring(s, i, acc) ==
    IF i > Len(s) THEN ParseFail
    ELSE IF s[i] = QT THEN ParseOk(acc, i + 1)
    ELSE IF s[i] = BS
         THEN IF i + 1 <= Len(s) /\ s[i + 1] \in {QT, BS}
              THEN scanstring(s, i + 2, Append(acc, s[i + 1]))
              ELSE ParseFail
    ELSE scanstring(s, i + 1, Append(acc, s[i]))

(* dict[key] = value: a repeated key keeps its position and takes the new value *)
dict_put(items, k, v) ==
    IF \E n \in DOMAIN items : items[n][1] = k
    THEN [n \in DOMAIN items |-> IF items[n][1] = k THEN <<k, v>> ELSE items[n]]
    ELSE Append(items, <<k, v>>)

RECURSIVE scan_once(_, _)
RECURSIVE JSONObject(_, _)
RECURSIVE JSONMembers(_, _, _)

(* s[j] is the opening quote of a member's key *)
JSONMembers(s, j, acc) ==
    LET key == scanstring(s, j + 1, <<>>)
    IN  IF ~key.ok THEN ParseFail
        ELSE LET c == skip_ws(s, key.next)
             IN  IF c > Len(s) \/ s[c] # CL THEN ParseFail
                 ELSE LET v == scan_once(s, skip_ws(s, c + 1))
                      IN  IF ~v.ok THEN ParseFail
                          ELSE LET e == skip_ws(s, v.next)
                                   items == dict_put(acc, key.val, v.val)
                               IN  IF e > Len(s) THEN ParseFail
                                   ELSE IF s[e] = RB THEN ParseOk(JObj(items), e + 1)
                                   ELSE IF s[e] # CM THEN ParseFail
                                   ELSE LET n == skip_ws(s, e + 1)
                                        IN  IF n > Len(s) \/ s[n] # QT THEN ParseFail
                                            ELSE JSONMembers(s, n, items)

(* i is the position after the opening brace *)
JSONObject(s, i) ==
    LET j == skip_ws(s, i)
    IN  IF j > Len(s) THEN ParseFail
        ELSE IF s[j] = RB THEN ParseOk(JObj(<<>>), j + 1)
        ELSE IF s[j] # QT THEN ParseFail
        ELSE JSONMembers(s, j, <<>>)

scan_once(s, i) ==
    IF i > Len(s) THEN ParseFail
    ELSE IF s[i] = QT
         THEN LET r == scanstring(s, i + 1, <<>>)
              IN  IF r.ok THEN ParseOk(JStr(r.val), r.next) ELSE ParseFail
    ELSE IF s[i] = LB THEN JSONObject(s, i + 1)
    ELSE ParseFail

(* json.loads: one value, surrounded by optional whitespace, and nothing more *)
json_loads(s) ==
    LET r == scan_once(s, skip_ws(s, 1))
    IN  IF r.ok /\ skip_ws(s, r.next) = Len(s) + 1
        THEN [kind |-> "value", value |-> r.val]
        ELSE [kind |-> "JSONDecodeError", value |-> JNull]

(***************************************************************************)
(* _extract_json_from_output                                               *)
(***************************************************************************)
NotFound == [kind |-> "None", value |-> JNull]

(* str.find: 0-based index of the first occurrence, -1 if there is none *)
RECURSIVE find_from(_, _, _)
find_from(s, c, i) ==
    IF i > Len(s) THEN -1
    ELSE IF s[i] = c THEN i - 1
    ELSE find_from(s, c, i + 1)

find(s, c) == find_from(s, c, 1)

ScanInit == [depth |-> 0, in_string |-> FALSE, escape_next |-> FALSE, json_end |-> -1]

(* scan_char without the in_string test: braces inside string literals count *)
scan_char_braces_in_strings(st, i, char) ==
    IF st.escape_next THEN [st EXCEPT !.escape_next = FALSE]
    ELSE IF char = BS /\ st.in_string THEN [st EXCEPT !.escape_next = TRUE]
    ELSE IF char = QT /\ ~st.escape_next THEN [st EXCEPT !.in_string = ~st.in_string]
    ELSE IF char = LB THEN [st EXCEPT !.depth = st.depth + 1]
    ELSE IF char = RB
         THEN IF st.depth - 1 = 0
              THEN [st EXCEPT !.depth = 0, !.json_end = i + 1]
              ELSE [st EXCEPT !.depth = st.depth - 1]
    ELSE st

(* one iteration of the brace-matching loop on the character at 0-based index i *)
scan_char(st, i, char) ==
    IF st.escape_next THEN [st EXCEPT !.escape_next = FALSE]
    ELSE IF char = BS /\ st.in_string THEN [st EXCEPT !.escape_next = TRUE]
    ELSE IF char = QT /\ ~st.escape_next THEN [st EXCEPT !.in_string = ~st.in_string]
    ELSE IF st.in_string THEN st
    ELSE IF char = LB THEN [st EXCEPT !.depth = st.depth + 1]
    ELSE IF char = RB
         THEN IF st.depth - 1 = 0
              THEN [st EXCEPT !.depth = 0, !.json_end = i + 1]
              ELSE [st EXCEPT !.depth = st.depth - 1]
    ELSE st

(* scan_loop without the break: json_end is the last return to depth zero *)
RECURSIVE scan_loop_no_break(_, _, _)
scan_loop_no_break(candidate, i, st) ==
    IF i >= Len(candidate) THEN st
    ELSE scan_loop_no_break(candidate, i + 1, scan_char(st, i, candidate[i + 1]))

(* the loop: stops (break) as soon as json_end is set *)
RECURSIVE scan_loop(_, _, _)
scan_loop(candidate, i, st) ==
    IF i >= Len(candidate) \/ st.json_end # -1 THEN st
    ELSE scan_loop(candidate, i + 1, scan_char(st, i, candidate[i + 1]))

find_json_end(candidate) == scan_loop(candidate, 0, ScanInit).json_end

(* _extract_json_from_output with the decode error swallowed into None *)
_extract_json_swallowing_errors(out) ==
    IF out = <<>> THEN NotFound
    ELSE LET first_brace == find(out, LB)
         IN  IF first_brace < 0 THEN NotFound
             ELSE LET candidate == SubSeq(out, first_brace + 1, Len(out))
                      json_end == find_json_end(candidate)
                      parsed == json_loads(SubSeq(candidate, 1, json_end))
                  IN  IF json_end > 0 /\ parsed.kind = "value" THEN parsed ELSE NotFound

_extract_json_from_output(out) ==
    IF out = <<>> THEN NotFound
    ELSE LET first_brace == find(out, LB)
         IN  IF first_brace < 0 THEN NotFound
             ELSE LET candidate == SubSeq(out, first_brace + 1, Len(out))
                      json_end == find_json_end(candidate)
                  IN  IF json_end > 0
                      THEN json_loads(SubSeq(candidate, 1, json_end))
                      ELSE NotFound

(***************************************************************************)
(* The CAD document.  An object of the document carries the fields the     *)
(* generated scripts read and write (Name, Label, EquipmentId, TypeId,     *)
(* Width, Length, Placement.Base, Placement.Rotation about the Z axis in   *)
(* degrees), and three history fields used to state the properties:        *)
(*   fp      the rotation-0 contract footprint <<w, h>> it was created for *)
(*   rot_in  the rotation_deg the creating tool read                       *)
(*   req     the placement most recently applied to it, if any             *)
(***************************************************************************)
M_TO_MM == 1000

NoId == <<>>
NoReq == [by |-> "none", x |-> 0, y |-> 0, rotation_deg |-> 0]

I_HYPHEN == <<"T", "-", "1">>
I_UNDER == <<"T", "_", "1">>
Ids == {I_HYPHEN, I_UNDER}

(* the document turns an object name into an identifier: "-" becomes "_" *)
sanitize(name) == [i \in DOMAIN name |-> IF name[i] \in {"-", ".", " "} THEN "_" ELSE name[i]]

Digit(n) == <<"0", "1", "2", "3", "4", "5", "6", "7", "8", "9">>[n + 1]

(* doc.addObject(type, name): the name itself, or the name with a numeric  *)
(* suffix when an object of that name exists                               *)
unique_name(objs, name) ==
    LET base == sanitize(name)
        used == {objs[i].Name : i \in DOMAIN objs}
    IN  IF base \notin used THEN base
        ELSE LET n == CHOOSE k \in 1..9 :
                        /\ (base \o <<"0", "0", Digit(k)>>) \notin used
                        /\ \A m \in 1..(k - 1) : (base \o <<"0", "0", Digit(m)>>) \in used
             IN  base \o <<"0", "0", Digit(n)>>

(* str.replace("-", "_") *)
replace_hyphens(id) == [i \in DOMAIN id |-> IF id[i] = "-" THEN "_" ELSE id[i]]

(* the first of the matching objects in document order, 0 (None) if none *)
FirstIndex(matching) ==
    IF matching # {}
    THEN CHOOSE i \in matching : \A j \in matching : i <= j
    ELSE 0

(* doc.getObject(name) *)
getObject(objs, name) == FirstIndex({i \in DOMAIN objs : objs[i].Name = name})

(* doc.getObjectsByLabel(label) *)
getObjectsByLabel(objs, label) == {i \in DOMAIN objs : objs[i].Label = label}

(* find_equipment_by_id without the EquipmentId lookup: Name, then Label *)
find_equipment_by_name_first(objs, equip_id) ==
    LET by_name == getObject(objs, replace_hyphens(equip_id))
        matches == getObjectsByLabel(objs, equip_id)
    IN  IF by_name # 0 THEN by_name
        ELSE IF Cardinality(matches) = 1 THEN CHOOSE i \in matches : TRUE
        ELSE 0

(* find_equipment_by_id: EquipmentId, then normalized Name, then a Label   *)
(* that exactly one object carries                                         *)
find_equipment_by_id(objs, equip_id) ==
    LET by_id == FirstIndex({i \in DOMAIN objs : objs[i].EquipmentId = equip_id})
        by_name == getObject(objs, replace_hyphens(equip_id))
        matches == getObjectsByLabel(objs, equip_id)
    IN  IF by_id # 0 THEN by_id
        ELSE IF by_name # 0 THEN by_name
        ELSE IF Cardinality(matches) = 1 THEN CHOOSE i \in matches : TRUE
        ELSE 0

(* FreeCAD.Rotation(Vector(0, 0, 1), deg) for whole quarter turns *)
Turn(deg) == deg % 360
Cos(deg) == IF Turn(deg) = 0 THEN 1 ELSE IF Turn(deg) = 180 THEN -1 ELSE 0
Sin(deg) == IF Turn(deg) = 90 THEN 1 ELSE IF Turn(deg) = 270 THEN -1 ELSE 0

(* rotation.multVec(v) *)
multVec(deg, v) ==
    <<v[1] * Cos(deg) - v[2] * Sin(deg), v[1] * Sin(deg) + v[2] * Cos(deg), v[3]>>

VecSub(a, b) == <<a[1] - b[1], a[2] - b[2], a[3] - b[3]>>
VecAdd(a, b) == <<a[1] + b[1], a[2] + b[2], a[3] + b[3]>>

(* get_rect_dims_at_rotation that swaps for 90 only *)
get_rect_dims_only_90(w, h, rotation_deg) ==
    IF rotation_deg = 90 THEN <<h, w>> ELSE <<w, h>>

get_rect_dims_at_rotation(w, h, rotation_deg) ==
    IF rotation_deg \in {90, 270} THEN <<h, w>> ELSE <<w, h>>

(* the inline pre-swap of create_equipment_envelope *)
envelope_dims(width, length, rotation_deg) ==
    IF rotation_deg \in {90, 270} THEN <<length, width>> ELSE <<width, length>>

(* the inline pre-swap of import_solutions_as_layers *)
layer_dims(orig_w, orig_h, rotation_deg) ==
    IF rotation_deg \in {90, 270} THEN <<orig_h, orig_w>> ELSE <<orig_w, orig_h>>

(* the inline pre-swap of present_layout_options *)
option_dims(orig_w, orig_h, rotation_deg) ==
    IF rotation_deg \in {90, 270} THEN <<orig_h, orig_w>> ELSE <<orig_w, orig_h>>

NewObject(name, label, equipment_id, type_id, dims, base, angle, fp, rot_in, by) ==
    [Name |-> name, Label |-> label, EquipmentId |-> equipment_id, TypeId |-> type_id,
     Width |-> dims[1], Length |-> dims[2], Base |-> base, Angle |-> angle,
     fp |-> fp, rot_in |-> rot_in, made_by |-> by, req |-> NoReq,
     Visibility |-> TRUE, InGroup |-> <<>>]

(***************************************************************************)
(* Tool inputs.  A structure is [id, shape, w, h]; a placement is          *)
(* [id, structure_id, x, y, rotation_deg], an absent key being NoId.       *)
(***************************************************************************)
MaxCalls == 2

Structure(id, shape, w, h, d) == [id |-> id, shape |-> shape, w |-> w, h |-> h, d |-> d]
Placement(id, sid, x, y, r) ==
    [id |-> id, structure_id |-> sid, x |-> x, y |-> y, rotation_deg |-> r]

NoCall == [tool |-> "none", status |-> "none", placements |-> <<>>,
           updated |-> <<>>, errors |-> <<>>]

Result(tool, status, placements, updated, errors) ==
    [tool |-> tool, status |-> status, placements |-> placements,
     updated |-> updated, errors |-> errors]

(* obj_id = p.get("id") or p.get("structure_id") *)
placement_obj_id(p) == IF p.id # NoId THEN p.id ELSE p.structure_id

(***************************************************************************)
(* create_equipment_envelope (rectangle or circle, without roof or dome)   *)
(***************************************************************************)
envelope_object(objs, equipment_id, shape, width, length, rotation_deg) ==
    IF shape = "rectangle"
    THEN LET eff == envelope_dims(width, length, rotation_deg)
             width_mm == eff[1] * M_TO_MM
             length_mm == eff[2] * M_TO_MM
         IN  NewObject(unique_name(objs, equipment_id), equipment_id, NoId, "Part::Box",
                       <<width_mm, length_mm>>,
                       <<-(width_mm \div 2), -(length_mm \div 2), 0>>, 0,
                       <<width, length>>, rotation_deg, "create_equipment_envelope")
    ELSE NewObject(unique_name(objs, equipment_id), equipment_id, NoId, "Part::Cylinder",
                   <<0, 0>>, <<0, 0, 0>>, 0,
                   <<width, width>>, rotation_deg, "create_equipment_envelope")

create_equipment_envelope(equipment_id, shape, width, length, rotation_deg) ==
    /\ ncalls < MaxCalls
    /\ objects' = Append(objects,
                         envelope_object(objects, equipment_id, shape, width, length,
                                         rotation_deg))
    /\ last' = Result("create_equipment_envelope", "created", <<>>, <<>>, <<>>)
    /\ ncalls' = ncalls + 1
    /\ UNCHANGED <<options, output, built, extracted, args, ret, connection>>

(***************************************************************************)
(* apply_placements                                                        *)
(***************************************************************************)
(* apply_box_base treating the box as centered on its base point *)
apply_box_base_centered(obj, x, y) == <<x, y, obj.Base[3]>>

(* the corner written for a Part::Box: the center less the half extents *)
apply_box_base(obj, x, y) ==
    LET half_x == obj.Width \div 2
        half_y == obj.Length \div 2
    IN  <<x - half_x, y - half_y, obj.Base[3]>>

(* apply_entry writing every object at elevation 0 *)
apply_entry_grounded(st, p) ==
    LET obj_id == placement_obj_id(p)
        x == p.x * M_TO_MM
        y == p.y * M_TO_MM
        i == find_equipment_by_id(st.objs, obj_id)
        obj == st.objs[i]
        req == [by |-> "apply_placements", x |-> p.x, y |-> p.y,
                rotation_deg |-> p.rotation_deg]
    IN  IF obj_id = NoId
        THEN [st EXCEPT !.errors = Append(@, [kind |-> "missing_id", id |-> NoId])]
        ELSE IF i = 0
        THEN [st EXCEPT !.errors = Append(@, [kind |-> "not_found", id |-> obj_id])]
        ELSE IF obj.TypeId = "Part::Box"
        THEN [st EXCEPT !.objs[i].Base = <<x - obj.Width \div 2, y - obj.Length \div 2, 0>>,
                        !.objs[i].Angle = 0,
                        !.objs[i].req = req,
                        !.updated = Append(@, obj_id)]
        ELSE [st EXCEPT !.objs[i].Base = <<x, y, 0>>,
                        !.objs[i].Angle = Turn(p.rotation_deg),
                        !.objs[i].req = req,
                        !.updated = Append(@, obj_id)]

(* one iteration of the script's loop over placements *)
apply_entry(st, p) ==
    LET obj_id == placement_obj_id(p)
        x == p.x * M_TO_MM
        y == p.y * M_TO_MM
        i == find_equipment_by_id(st.objs, obj_id)
        obj == st.objs[i]
        req == [by |-> "apply_placements", x |-> p.x, y |-> p.y,
                rotation_deg |-> p.rotation_deg]
    IN  IF obj_id = NoId
        THEN [st EXCEPT !.errors = Append(@, [kind |-> "missing_id", id |-> NoId])]
        ELSE IF i = 0
        THEN [st EXCEPT !.errors = Append(@, [kind |-> "not_found", id |-> obj_id])]
        ELSE IF obj.TypeId = "Part::Box"
        THEN [st EXCEPT !.objs[i].Base = apply_box_base(obj, x, y),
                        !.objs[i].Angle = 0,
                        !.objs[i].req = req,
                        !.updated = Append(@, obj_id)]
        ELSE [st EXCEPT !.objs[i].Base = <<x, y, obj.Base[3]>>,
                        !.objs[i].Angle = Turn(p.rotation_deg),
                        !.objs[i].req = req,
                        !.updated = Append(@, obj_id)]

(* the loop stopping at the first entry it cannot apply *)
RECURSIVE apply_loop_aborting(_, _)
apply_loop_aborting(st, placements) ==
    IF placements = <<>> THEN st
    ELSE LET nxt == apply_entry(st, Head(placements))
         IN  IF Len(nxt.errors) > Len(st.errors) THEN nxt
             ELSE apply_loop_aborting(nxt, Tail(placements))

RECURSIVE apply_loop(_, _)
apply_loop(st, placements) ==
    IF placements = <<>> THEN st
    ELSE apply_loop(apply_entry(st, Head(placements)), Tail(placements))

apply_placements(placements) ==
    /\ ncalls < MaxCalls
    /\ ncalls' = ncalls + 1
    /\ UNCHANGED <<options, output, built, extracted, args, ret, connection>>
    /\ IF placements = <<>>
       THEN /\ last' = Result("apply_placements", "no_placements", placements, <<>>, <<>>)
            /\ UNCHANGED objects
       ELSE LET st == apply_loop([objs |-> objects, updated |-> <<>>, errors |-> <<>>],
                                 placements)
            IN  /\ objects' = st.objs
                /\ last' = Result("apply_placements", "applied", placements,
                                  st.updated, st.errors)

(***************************************************************************)
(* import_sitefit_contract: the equipment step and the placement step      *)
(***************************************************************************)
(* rotation_deg of the first placement whose "id" is the structure's id *)
sitefit_rotation(placements_data, struct_id) ==
    LET hits == {n \in DOMAIN placements_data : placements_data[n].id = struct_id}
    IN  IF hits = {} THEN 0
        ELSE placements_data[CHOOSE n \in hits : \A m \in hits : n <= m].rotation_deg

(* the equipment script of one structure: nothing when it already exists *)
sitefit_equipment(objs, struct, placements_data) ==
    LET by_id == FirstIndex({i \in DOMAIN objs : objs[i].EquipmentId = struct.id})
        existing == IF by_id # 0 THEN by_id ELSE getObject(objs, struct.id)
        rotation_deg == sitefit_rotation(placements_data, struct.id)
        dims == get_rect_dims_at_rotation(struct.w, struct.h, rotation_deg)
    IN  IF existing # 0 THEN objs
        ELSE IF struct.shape = "circle"
        THEN Append(objs, NewObject(unique_name(objs, struct.id), struct.id, struct.id,
                                    "Part::Cylinder", <<0, 0>>, <<0, 0, 0>>, 0,
                                    <<struct.d, struct.d>>, 0, "import_sitefit_contract"))
        ELSE Append(objs, NewObject(unique_name(objs, struct.id), struct.id, struct.id,
                                    "Part::Box",
                                    <<dims[1] * M_TO_MM, dims[2] * M_TO_MM>>, <<0, 0, 0>>, 0,
                                    <<struct.w, struct.h>>, rotation_deg,
                                    "import_sitefit_contract"))

RECURSIVE sitefit_equipment_loop(_, _, _)
sitefit_equipment_loop(objs, structures, placements_data) ==
    IF structures = <<>> THEN objs
    ELSE sitefit_equipment_loop(sitefit_equipment(objs, Head(structures), placements_data),
                                Tail(structures), placements_data)

(* sitefit_box_base with the center offset left unrotated *)
sitefit_box_base_unrotated(obj, x, y, rotation_deg) ==
    LET half_x == obj.Width \div 2
        half_y == obj.Length \div 2
    IN  <<x - half_x, y - half_y, obj.Base[3]>>

(* the corner written for a Part::Box: center_world - R * center_local *)
sitefit_box_base(obj, x, y, rotation_deg) ==
    LET half_x == obj.Width \div 2
        half_y == obj.Length \div 2
        center_local == <<half_x, half_y, 0>>
        center_world == <<x, y, obj.Base[3]>>
    IN  VecSub(center_world, multVec(rotation_deg, center_local))

(* one iteration of the placement script's loop *)
sitefit_entry(st, p) ==
    LET obj_id == placement_obj_id(p)
        x == p.x * M_TO_MM
        y == p.y * M_TO_MM
        i == find_equipment_by_id(st.objs, obj_id)
        obj == st.objs[i]
        req == [by |-> "import_sitefit_contract", x |-> p.x, y |-> p.y,
                rotation_deg |-> p.rotation_deg]
    IN  IF obj_id = NoId
        THEN [st EXCEPT !.errors = Append(@, [kind |-> "missing_id", id |-> NoId])]
        ELSE IF i = 0
        THEN [st EXCEPT !.errors = Append(@, [kind |-> "not_found", id |-> obj_id])]
        ELSE [st EXCEPT !.objs[i].Base =
                            IF obj.TypeId = "Part::Box"
                            THEN sitefit_box_base(obj, x, y, p.rotation_deg)
                            ELSE <<x, y, obj.Base[3]>>,
                        !.objs[i].Angle = Turn(p.rotation_deg),
                        !.objs[i].req = req,
                        !.updated = @ + 1]

RECURSIVE sitefit_loop(_, _)
sitefit_loop(st, placements) ==
    IF placements = <<>> THEN st
    ELSE sitefit_loop(sitefit_entry(st, Head(placements)), Tail(placements))

import_sitefit_contract(structures, placements_data, apply_placements_flag) ==
    /\ ncalls < MaxCalls
    /\ ncalls' = ncalls + 1
    /\ UNCHANGED <<options, output, built, extracted, args, ret, connection>>
    /\ LET created == sitefit_equipment_loop(objects, structures, placements_data)
       IN  IF apply_placements_flag /\ placements_data # <<>>
           THEN LET st == sitefit_loop([objs |-> created, updated |-> 0,
                                        errors |-> <<>>], placements_data)
                IN  /\ objects' = st.objs
                    /\ last' = Result("import_sitefit_contract", "placed", placements_data,
                                      st.updated, st.errors)
           ELSE /\ objects' = created
                /\ last' = Result("import_sitefit_contract", "not_placed", placements_data,
                                  0, <<>>)

(***************************************************************************)
(* import_solutions_as_layers and present_layout_options.  A solution is   *)
(* [structures, placements]; rank defaults to the solution's position.     *)
(***************************************************************************)
GroupObject(objs, name, label) ==
    NewObject(unique_name(objs, name), label, NoId, "App::DocumentObjectGroup",
              <<0, 0>>, <<0, 0, 0>>, 0, <<0, 0>>, 0, "import_solutions_as_layers")

CommonName == <<"C", "o", "m", "m", "o", "n">>
LayoutPrefix == <<"L", "a", "y", "o", "u", "t", "_">>
LayerName(idx) ==
    <<"L", "a", "y", "o", "u", "t", "_", Digit(idx), "_", "R", "a", "n", "k", Digit(idx)>>
EquipmentSuffix == <<"_", "E", "q", "u", "i", "p", "m", "e", "n", "t">>
EquipmentLabel == <<"E", "q", "u", "i", "p", "m", "e", "n", "t">>

(* the first placement naming the structure by "structure_id" or by "id" *)
solution_placement(placements, struct_id) ==
    LET hits == {n \in DOMAIN placements :
                    placements[n].structure_id = struct_id \/ placements[n].id = struct_id}
    IN  IF hits = {} THEN 0 ELSE CHOOSE n \in hits : \A m \in hits : n <= m

(* the equipment object of one structure, created at its solved position *)
solved_object(name, equipment_id, struct, placements, dims, at_rotation, by) ==
    LET n == solution_placement(placements, struct.id)
        x_m == IF n = 0 THEN 0 ELSE placements[n].x
        y_m == IF n = 0 THEN 0 ELSE placements[n].y
        rotation_deg == IF n = 0 THEN 0 ELSE placements[n].rotation_deg
        x_mm == x_m * M_TO_MM
        y_mm == y_m * M_TO_MM
        req == IF n = 0 THEN NoReq
               ELSE [by |-> by, x |-> x_m, y |-> y_m, rotation_deg |-> rotation_deg]
    IN  IF struct.shape = "circle"
        THEN [NewObject(name, struct.id, equipment_id, "Part::Cylinder", <<0, 0>>,
                        <<x_mm, y_mm, 0>>,
                        IF at_rotation THEN Turn(rotation_deg) ELSE 0,
                        <<struct.d, struct.d>>, rotation_deg, by) EXCEPT !.req = req]
        ELSE LET width_mm == dims[1] * M_TO_MM
                 length_mm == dims[2] * M_TO_MM
                 corner_x == x_mm - (width_mm \div 2)
                 corner_y == y_mm - (length_mm \div 2)
             IN  [NewObject(name, struct.id, equipment_id, "Part::Box",
                            <<width_mm, length_mm>>, <<corner_x, corner_y, 0>>, 0,
                            <<struct.w, struct.h>>, rotation_deg, by) EXCEPT !.req = req]

layer_rotation(struct, placements) ==
    LET n == solution_placement(placements, struct.id)
    IN  IF n = 0 THEN 0 ELSE placements[n].rotation_deg

(* group.addObject(obj): obj is a member of the group named *)
addObject(obj, group_name) == [obj EXCEPT !.InGroup = group_name]

(* the objects in the group named, and in the groups in it *)
RECURSIVE members_of(_, _, _)
members_of(objs, names, depth) ==
    LET inside == {n \in DOMAIN objs : objs[n].InGroup \in names}
    IN  IF depth = 0 \/ inside = {} THEN inside
        ELSE inside \cup members_of(objs, {objs[n].Name : n \in inside}, depth - 1)

(* obj.ViewObject.Visibility = value on the object at position i.  The     *)
(* view provider of a group shows and hides the members of the group with  *)
(* the group (cascade).                                                    *)
GroupCascade == TRUE

set_visibility(objs, i, value, cascade) ==
    [n \in DOMAIN objs |->
        IF n = i \/ (cascade /\ n \in members_of(objs, {objs[i].Name}, 2))
        THEN [objs[n] EXCEPT !.Visibility = value]
        ELSE objs[n]]

RECURSIVE layer_equipment_loop(_, _, _, _)
layer_equipment_loop(objs, structures, placements, idx) ==
    IF structures = <<>> THEN objs
    ELSE LET struct == Head(structures)
             obj_name == replace_hyphens(struct.id) \o <<"_", "L", Digit(idx)>>
             dims == layer_dims(struct.w, struct.h, layer_rotation(struct, placements))
         IN  layer_equipment_loop(
                 Append(objs,
                        addObject(solved_object(unique_name(objs, obj_name), NoId, struct,
                                                placements, dims, FALSE,
                                                "import_solutions_as_layers"),
                                  LayerName(idx) \o EquipmentSuffix)),
                 Tail(structures), placements, idx)

(* layer_code puts the equipment group it creates into the layer it has    *)
(* just created; equip_code then looks the equipment group up by name      *)
layer_with_equipment(with_layer, sol, idx) ==
    layer_equipment_loop(
        Append(with_layer,
               addObject(GroupObject(with_layer, LayerName(idx) \o EquipmentSuffix,
                                     EquipmentLabel),
                         with_layer[Len(with_layer)].Name)),
        sol.structures, sol.placements, idx)

(* visibility_code: the layer looked up by name is visible when it is the  *)
(* active one (active_layer_index = 0, the first solution)                 *)
visibility_code(objs, idx, cascade) ==
    set_visibility(objs, getObject(objs, LayerName(idx)), idx = 1, cascade)

RECURSIVE layers_loop(_, _, _, _)
layers_loop(objs, solutions, idx, cascade) ==
    IF idx > Len(solutions) THEN objs
    ELSE layers_loop(
             visibility_code(
                 layer_with_equipment(
                     Append(objs, GroupObject(objs, LayerName(idx), LayerName(idx))),
                     solutions[idx], idx),
                 idx, cascade),
             solutions, idx + 1, cascade)

import_solutions_as_layers(solutions) ==
    /\ ncalls < MaxCalls
    /\ ncalls' = ncalls + 1
    /\ objects' = layers_loop(Append(objects, GroupObject(objects, CommonName, CommonName)),
                              solutions, 1, GroupCascade)
    /\ last' = Result("import_solutions_as_layers", "created", <<>>, <<>>, <<>>)
    /\ UNCHANGED <<options, output, built, extracted, args, ret, connection>>

(* the objects of one option document *)
RECURSIVE option_equipment_loop(_, _, _)
option_equipment_loop(objs, structures, placements) ==
    IF structures = <<>> THEN objs
    ELSE LET struct == Head(structures)
             dims == option_dims(struct.w, struct.h, layer_rotation(struct, placements))
         IN  option_equipment_loop(
                 Append(objs, solved_object(unique_name(objs, struct.id), struct.id, struct,
                                            placements, dims, TRUE,
                                            "present_layout_options")),
                 Tail(structures), placements)

(* class FreeCADConnection with a check_connection method added *)
FreeCADConnection_checked ==
    {"disconnect", "ping", "create_document", "create_object", "edit_object",
     "delete_object", "insert_part_from_library", "execute_code",
     "get_active_screenshot", "get_objects", "get_object", "get_parts_list",
     "check_connection"}

(* class FreeCADConnection: the methods it defines; it defines no          *)
(* __getattr__, so any other attribute raises AttributeError               *)
FreeCADConnection ==
    {"disconnect", "ping", "create_document", "create_object", "edit_object",
     "delete_object", "insert_part_from_library", "execute_code",
     "get_active_screenshot", "get_objects", "get_object", "get_parts_list"}

AttributeError(method) ==
    <<"'FreeCADConnection' object has no attribute '">> \o <<method>> \o <<"'">>

(* the methods the tools invoke on the connection they are handed *)
invoked_methods ==
    {"create_document", "create_object", "edit_object", "delete_object",
     "insert_part_from_library", "execute_code", "get_active_screenshot",
     "get_objects", "get_object", "get_parts_list", "check_connection"}

(* freecad.check_connection() *)
check_connection_raises == "check_connection" \notin FreeCADConnection

option_documents(solutions) ==
    [i \in DOMAIN solutions |->
        option_equipment_loop(<<>>, solutions[i].structures, solutions[i].placements)]

present_layout_options(solutions, use_single_document) ==
    IF use_single_document
    THEN import_solutions_as_layers(solutions)
    ELSE /\ ncalls < MaxCalls
         /\ ncalls' = ncalls + 1
         /\ options' = IF check_connection_raises THEN options
                       ELSE options \o option_documents(solutions)
         /\ last' = IF check_connection_raises
                    THEN Result("present_layout_options", "raised", <<>>, <<>>,
                                <<AttributeError("check_connection")>>)
                    ELSE Result("present_layout_options", "created", <<>>, <<>>, <<>>)
         /\ UNCHANGED <<objects, output, built, extracted, args, ret, connection>>

(***************************************************************************)
(* Inputs of the extractor: the message of an execute_code result.  A      *)
(* message is prefix \o body \o suffix, the body being json.dumps of a     *)
(* mapping (built.structured) or an arbitrary short string.                *)
(***************************************************************************)
(* Python floats (IEEE 754 binary64, round to nearest even), for the       *)
(* arithmetic the scripts do on lengths.  A natural number of any size is  *)
(* a sequence of limbs in base 1024, least significant first, without      *)
(* leading zeros; a float is [neg, m, e] standing for (-1)^neg * m * 2^e,  *)
(* with m odd (or zero) and of at most 53 bits.  Subnormals, infinities    *)
(* and NaN are out of the range of lengths.                                *)
(***************************************************************************)
MantissaBits == 53
LimbBits == 10
Base == 1024

RECURSIVE Pow2(_)
Pow2(k) == IF k = 0 THEN 1 ELSE 2 * Pow2(k - 1)

RECURSIVE BTrim(_)
BTrim(b) == IF b # <<>> /\ b[Len(b)] = 0 THEN BTrim(SubSeq(b, 1, Len(b) - 1)) ELSE b

RECURSIVE BFromNat(_)
BFromNat(n) == IF n = 0 THEN <<>> ELSE <<n % Base>> \o BFromNat(n \div Base)

RECURSIVE BAddC(_, _, _)
BAddC(a, b, c) ==
    IF a = <<>> /\ b = <<>> THEN (IF c = 1 THEN <<1>> ELSE <<>>)
    ELSE LET x == IF a = <<>> THEN 0 ELSE Head(a)
             y == IF b = <<>> THEN 0 ELSE Head(b)
             ta == IF a = <<>> THEN <<>> ELSE Tail(a)
             tb == IF b = <<>> THEN <<>> ELSE Tail(b)
         IN  <<(x + y + c) % Base>> \o BAddC(ta, tb, (x + y + c) \div Base)

BAdd(a, b) == BAddC(a, b, 0)

(* a - b for a >= b *)
RECURSIVE BSubC(_, _, _)
BSubC(a, b, c) ==
    IF a = <<>> THEN <<>>
    ELSE LET y == IF b = <<>> THEN 0 ELSE Head(b)
             tb == IF b = <<>> THEN <<>> ELSE Tail(b)
             d == Head(a) - y - c
         IN  <<d % Base>> \o BSubC(Tail(a), tb, IF d < 0 THEN 1 ELSE 0)

BSub(a, b) == BTrim(BSubC(a, b, 0))

RECURSIVE BLessFrom(_, _, _)
BLessFrom(a, b, i) ==
    IF i = 0 THEN FALSE
    ELSE IF a[i] # b[i] THEN a[i] < b[i]
    ELSE BLessFrom(a, b, i - 1)

BLess(a, b) ==
    IF Len(a) # Len(b) THEN Len(a) < Len(b) ELSE BLessFrom(a, b, Len(a))

(* a * s + c for a small s *)
RECURSIVE BMulSmall(_, _, _)
BMulSmall(a, s, c) ==
    IF a = <<>> THEN BFromNat(c)
    ELSE <<(Head(a) * s + c) % Base>> \o BMulSmall(Tail(a), s, (Head(a) * s + c) \div Base)

BShiftLimb(a) == IF a = <<>> THEN <<>> ELSE <<0>> \o a

RECURSIVE BMul(_, _)
BMul(a, b) ==
    IF a = <<>> \/ b = <<>> THEN <<>>
    ELSE BAdd(BMulSmall(a, Head(b), 0), BShiftLimb(BMul(a, Tail(b))))

(* quotient and remainder of a by a small divisor: long division from the  *)
(* top limb down, r being the remainder carried into limb i                *)
BDivStep(rest, limb) == [q |-> Append(rest.q, limb), r |-> rest.r]

RECURSIVE BDivFrom(_, _, _, _)
BDivFrom(a, d, i, r) ==
    IF i = 0 THEN [q |-> <<>>, r |-> r]
    ELSE BDivStep(BDivFrom(a, d, i - 1, (r * Base + a[i]) % d), (r * Base + a[i]) \div d)

BDivQuotient(qr) == [q |-> BTrim(qr.q), r |-> qr.r]

BDivSmall(a, d) == BDivQuotient(BDivFrom(a, d, Len(a), 0))

RECURSIVE SmallBitLen(_)
SmallBitLen(n) == IF n = 0 THEN 0 ELSE 1 + SmallBitLen(n \div 2)

BitLen(a) == IF a = <<>> THEN 0 ELSE LimbBits * (Len(a) - 1) + SmallBitLen(a[Len(a)])

BShl(a, k) ==
    IF a = <<>> THEN <<>>
    ELSE [i \in 1..(k \div LimbBits) |-> 0] \o BMulSmall(a, Pow2(k % LimbBits), 0)

BShr(a, k) ==
    IF k \div LimbBits >= Len(a) THEN <<>>
    ELSE BDivSmall(SubSeq(a, k \div LimbBits + 1, Len(a)), Pow2(k % LimbBits)).q

(* bit i of a, bit 1 being the lowest *)
BBit(a, i) ==
    IF (i - 1) \div LimbBits + 1 > Len(a) THEN 0
    ELSE (a[(i - 1) \div LimbBits + 1] \div Pow2((i - 1) % LimbBits)) % 2

(* number of zero bits below the lowest set bit *)
RECURSIVE SmallLowZeros(_)
SmallLowZeros(n) == IF n % 2 = 1 THEN 0 ELSE 1 + SmallLowZeros(n \div 2)

RECURSIVE LowZeros(_)
LowZeros(b) ==
    IF b = <<>> THEN 0
    ELSE IF Head(b) = 0 THEN LimbBits + LowZeros(Tail(b))
    ELSE SmallLowZeros(Head(b))

(* b / 2^k rounded to the nearest natural number, ties to even *)
BRoundShr(b, k) ==
    IF k <= 0 THEN BShl(b, -k)
    ELSE LET q == BShr(b, k)
             half == BBit(b, k) = 1
             sticky == \E i \in 1..(k - 1) : BBit(b, i) = 1
             odd == BBit(q, 1) = 1
         IN  IF half /\ (sticky \/ odd) THEN BAdd(q, <<1>>) ELSE q

DZero == [neg |-> FALSE, m |-> <<>>, e |-> 0]

(* the float nearest to (-1)^neg * M * 2^E *)
DRound(neg, M, E) ==
    IF M = <<>> THEN DZero
    ELSE LET k == IF BitLen(M) > MantissaBits THEN BitLen(M) - MantissaBits ELSE 0
             q == BRoundShr(M, k)
             z == LowZeros(q)
         IN  [neg |-> neg, m |-> BShr(q, z), e |-> E + k + z]

DFromInt(n) == DRound(n < 0, BFromNat(IF n < 0 THEN -n ELSE n), 0)

(* the float a decimal literal num / 10^digits denotes *)
DecimalShift == 90

RECURSIVE Pow10(_)
Pow10(d) == IF d = 0 THEN 1 ELSE 10 * Pow10(d - 1)

DFromDecimalBits(neg, N, digits) ==
    LET qr == BDivSmall(BShl(N, DecimalShift), Pow10(digits))
    IN  IF qr.r = 0 THEN DRound(neg, qr.q, -DecimalShift)
        ELSE DRound(neg, BAdd(BShl(qr.q, 1), <<1>>), -DecimalShift - 1)

DFromDecimal(num, digits) ==
    DFromDecimalBits(num < 0, BFromNat(IF num < 0 THEN -num ELSE num), digits)

DNeg(a) == IF a.m = <<>> THEN a ELSE [a EXCEPT !.neg = ~a.neg]

DAbs(a) == [a EXCEPT !.neg = FALSE]

DMul(a, b) == DRound(a.neg # b.neg, BMul(a.m, b.m), a.e + b.e)

DAdd(a, b) ==
    LET e == IF a.e < b.e THEN a.e ELSE b.e
        A == BShl(a.m, a.e - e)
        B == BShl(b.m, b.e - e)
    IN  IF a.neg = b.neg THEN DRound(a.neg, BAdd(A, B), e)
        ELSE IF BLess(A, B) THEN DRound(b.neg, BSub(B, A), e)
        ELSE DRound(a.neg, BSub(A, B), e)

DSub(a, b) == DAdd(a, DNeg(b))

DLess(a, b) ==
    LET e == IF a.e < b.e THEN a.e ELSE b.e
        A == BShl(a.m, a.e - e)
        B == BShl(b.m, b.e - e)
    IN  IF a.neg /\ ~b.neg THEN TRUE
        ELSE IF ~a.neg /\ b.neg THEN FALSE
        ELSE IF a.neg THEN BLess(B, A)
        ELSE BLess(A, B)

(* max(a, b) *)
DMax(a, b) == IF DLess(a, b) THEN b ELSE a

(* a / 2 *)
DHalf(a) == IF a.m = <<>> THEN a ELSE [a EXCEPT !.e = @ - 1]

(* round(a, ndigits): the float of the decimal nearest to a, ties to even *)
round(a, ndigits) ==
    LET scaled == BMul(a.m, BFromNat(Pow10(ndigits)))
        K == BRoundShr(scaled, -a.e)
    IN  DFromDecimalBits(a.neg /\ K # <<>>, K, ndigits)

(***************************************************************************)
(* The helpers of the export script: infer_equipment_type and get_envelope *)
(***************************************************************************)
(* str.lower() on the letters equipment names use *)
lower_char(ch) ==
    CASE ch = "A" -> "a" [] ch = "B" -> "b" [] ch = "C" -> "c" [] ch = "D" -> "d"
      [] ch = "E" -> "e" [] ch = "F" -> "f" [] ch = "G" -> "g" [] ch = "H" -> "h"
      [] ch = "I" -> "i" [] ch = "J" -> "j" [] ch = "K" -> "k" [] ch = "L" -> "l"
      [] ch = "M" -> "m" [] ch = "N" -> "n" [] ch = "O" -> "o" [] ch = "P" -> "p"
      [] ch = "Q" -> "q" [] ch = "R" -> "r" [] ch = "S" -> "s" [] ch = "T" -> "t"
      [] ch = "U" -> "u" [] ch = "V" -> "v" [] ch = "W" -> "w" [] ch = "X" -> "x"
      [] ch = "Y" -> "y" [] ch = "Z" -> "z" [] OTHER -> ch

lower(s) == [i \in DOMAIN s |-> lower_char(s[i])]

(* s.startswith(prefix) *)
startswith(s, prefix) ==
    Len(prefix) <= Len(s) /\ SubSeq(s, 1, Len(prefix)) = prefix

(* sub in s *)
contains(s, sub) ==
    \E i \in 1..(Len(s) - Len(sub) + 1) : SubSeq(s, i, i + Len(sub) - 1) = sub

(* infer_equipment_type comparing the name as it is written *)
infer_equipment_type_case_sensitive(obj_name, obj_type) ==
    LET name_lower == obj_name
    IN  IF contains(name_lower, <<"t", "a", "n", "k">>) \/ startswith(name_lower, <<"t", "k">>)
        THEN "storage_tank"
        ELSE IF contains(name_lower, <<"r", "e", "a", "c", "t", "o", "r">>) \/ startswith(name_lower, <<"r", "-">>)
        THEN "reactor"
        ELSE IF contains(name_lower, <<"p", "u", "m", "p">>) \/ startswith(name_lower, <<"p", "-">>)
        THEN "pump"
        ELSE IF contains(name_lower, <<"c", "l", "a", "r", "i", "f", "i", "e", "r">>)
        THEN "clarifier"
        ELSE IF contains(name_lower, <<"t", "h", "i", "c", "k", "e", "n", "e", "r">>)
        THEN "thickener"
        ELSE IF contains(name_lower, <<"f", "i", "l", "t", "e", "r">>)
        THEN "filter"
        ELSE IF contains(name_lower, <<"b", "l", "o", "w", "e", "r">>) \/ startswith(name_lower, <<"b", "l", "-">>)
        THEN "blower"
        ELSE IF contains(name_lower, <<"c", "o", "m", "p", "r", "e", "s", "s", "o", "r">>)
        THEN "compressor"
        ELSE IF contains(name_lower, <<"e", "x", "c", "h", "a", "n", "g", "e", "r">>) \/ startswith(name_lower, <<"e", "-">>)
        THEN "heat_exchanger"
        ELSE IF contains(name_lower, <<"c", "o", "l", "u", "m", "n">>) \/ startswith(name_lower, <<"c", "-">>)
        THEN "column"
        ELSE IF contains(name_lower, <<"v", "e", "s", "s", "e", "l">>) \/ startswith(name_lower, <<"v", "-">>)
        THEN "vessel"
        ELSE IF contains(name_lower, <<"b", "a", "s", "i", "n">>)
        THEN "basin"
        ELSE IF contains(name_lower, <<"b", "u", "i", "l", "d", "i", "n", "g">>)
        THEN "building"
        ELSE IF contains(name_lower, <<"s", "u", "b", "s", "t", "a", "t", "i", "o", "n">>)
        THEN "substation"
        ELSE IF contains(name_lower, <<"m", "c", "c">>)
        THEN "mcc"
        ELSE IF contains(name_lower, <<"r", "a", "c", "k">>)
        THEN "pipe_rack"
        ELSE "other"

infer_equipment_type(obj_name, obj_type) ==
    LET name_lower == lower(obj_name)
    IN  IF contains(name_lower, <<"t", "a", "n", "k">>) \/ startswith(name_lower, <<"t", "k">>)
        THEN "storage_tank"
        ELSE IF contains(name_lower, <<"r", "e", "a", "c", "t", "o", "r">>) \/ startswith(name_lower, <<"r", "-">>)
        THEN "reactor"
        ELSE IF contains(name_lower, <<"p", "u", "m", "p">>) \/ startswith(name_lower, <<"p", "-">>)
        THEN "pump"
        ELSE IF contains(name_lower, <<"c", "l", "a", "r", "i", "f", "i", "e", "r">>)
        THEN "clarifier"
        ELSE IF contains(name_lower, <<"t", "h", "i", "c", "k", "e", "n", "e", "r">>)
        THEN "thickener"
        ELSE IF contains(name_lower, <<"f", "i", "l", "t", "e", "r">>)
        THEN "filter"
        ELSE IF contains(name_lower, <<"b", "l", "o", "w", "e", "r">>) \/ startswith(name_lower, <<"b", "l", "-">>)
        THEN "blower"
        ELSE IF contains(name_lower, <<"c", "o", "m", "p", "r", "e", "s", "s", "o", "r">>)
        THEN "compressor"
        ELSE IF contains(name_lower, <<"e", "x", "c", "h", "a", "n", "g", "e", "r">>) \/ startswith(name_lower, <<"e", "-">>)
        THEN "heat_exchanger"
        ELSE IF contains(name_lower, <<"c", "o", "l", "u", "m", "n">>) \/ startswith(name_lower, <<"c", "-">>)
        THEN "column"
        ELSE IF contains(name_lower, <<"v", "e", "s", "s", "e", "l">>) \/ startswith(name_lower, <<"v", "-">>)
        THEN "vessel"
        ELSE IF contains(name_lower, <<"b", "a", "s", "i", "n">>)
        THEN "basin"
        ELSE IF contains(name_lower, <<"b", "u", "i", "l", "d", "i", "n", "g">>)
        THEN "building"
        ELSE IF contains(name_lower, <<"s", "u", "b", "s", "t", "a", "t", "i", "o", "n">>)
        THEN "substation"
        ELSE IF contains(name_lower, <<"m", "c", "c">>)
        THEN "mcc"
        ELSE IF contains(name_lower, <<"r", "a", "c", "k">>)
        THEN "pipe_rack"
        ELSE "other"

(* the script's MM_TO_M = 0.001 and the literal 0.1 of get_envelope *)
MM_TO_M == DFromDecimal(1, 3)
ROUGHLY_CIRCULAR == DFromDecimal(1, 1)

(* shape.BoundBox of a shape spanning the given extents, in millimeters *)
BoundBox(xmin, ymin, dx, dy, dz) ==
    [XMin |-> DFromInt(xmin), XMax |-> DFromInt(xmin + dx),
     YMin |-> DFromInt(ymin), YMax |-> DFromInt(ymin + dy),
     ZMin |-> DFromInt(0), ZMax |-> DFromInt(dz)]

(* the classification of get_envelope, on the three lengths in meters *)
envelope_of(width, length, height) ==
    IF DLess(DAbs(DSub(width, length)), DMul(ROUGHLY_CIRCULAR, DMax(width, length)))
    THEN [envelope |-> [shape |-> "circle",
                        diameter |-> round(DHalf(DAdd(width, length)), 3)],
          height |-> round(height, 3)]
    ELSE [envelope |-> [shape |-> "rectangle", width |-> round(width, 3),
                        length |-> round(length, 3)],
          height |-> round(height, 3)]

get_envelope(bbox) ==
    envelope_of(DMul(DSub(bbox.XMax, bbox.XMin), MM_TO_M),
                DMul(DSub(bbox.YMax, bbox.YMin), MM_TO_M),
                DMul(DSub(bbox.ZMax, bbox.ZMin), MM_TO_M))

(***************************************************************************)
(* export_contract_json.  The script walks doc.Objects; the host parses    *)
(* the contract the script prints and answers with it, filtered by         *)
(* detail_level.  Equipment is created with the tools' default height.     *)
(***************************************************************************)
DefaultHeight == 5

DocName == <<"D", "o", "c">>

(* the text an f-string writes for boundary_object = None *)
StrNone == <<"N", "o", "n", "e">>

(* the name Draft.makeWire gives its object, and the types a document may  *)
(* report for it                                                           *)
WireName == <<"W", "i", "r", "e">>
WireTypeIds == {"Draft::Wire", "Part::Part2DObjectPython"}

(* create_site_boundary for the rectangle (0, 0) .. (w, h), in meters *)
create_site_boundary(w, h, boundary_name, type_id) ==
    /\ ncalls < MaxCalls
    /\ objects' = Append(objects,
                         NewObject(unique_name(objects, WireName), boundary_name, NoId,
                                   type_id, <<0, 0>>, <<0, 0, 0>>, 0, <<w, h>>, 0,
                                   "create_site_boundary"))
    /\ last' = Result("create_site_boundary", "created", <<>>, <<>>, <<>>)
    /\ ncalls' = ncalls + 1
    /\ UNCHANGED <<options, output, built, extracted, args, ret, connection>>

(* hasattr(obj, "Shape") and not obj.Shape.isNull() *)
has_shape(obj) == obj.TypeId \in ({"Part::Box", "Part::Cylinder"} \cup WireTypeIds)

(* hasattr(obj, "Points") *)
has_points(obj) == obj.TypeId \in WireTypeIds

(* obj.Shape.BoundBox, the shape standing at the object's placement *)
ShapeBoundBox(obj) ==
    IF obj.TypeId = "Part::Box"
    THEN LET corners == {VecAdd(obj.Base, multVec(obj.Angle, <<dx, dy, 0>>)) :
                            dx \in {0, obj.Width}, dy \in {0, obj.Length}}
             xmin == CHOOSE x \in {c[1] : c \in corners} : \A c \in corners : x <= c[1]
             xmax == CHOOSE x \in {c[1] : c \in corners} : \A c \in corners : c[1] <= x
             ymin == CHOOSE y \in {c[2] : c \in corners} : \A c \in corners : y <= c[2]
             ymax == CHOOSE y \in {c[2] : c \in corners} : \A c \in corners : c[2] <= y
         IN  BoundBox(xmin, ymin, xmax - xmin, ymax - ymin, DefaultHeight * M_TO_MM)
    ELSE IF obj.TypeId = "Part::Cylinder"
    THEN LET radius == (obj.fp[1] * M_TO_MM) \div 2
         IN  BoundBox(obj.Base[1] - radius, obj.Base[2] - radius, 2 * radius, 2 * radius,
                      DefaultHeight * M_TO_MM)
    ELSE BoundBox(0, 0, obj.fp[1] * M_TO_MM, obj.fp[2] * M_TO_MM, 0)

(* the boundary section: the Points of the object named boundary_name, a   *)
(* wire drawn by create_site_boundary                                      *)
site_boundary(objs, boundary_name) ==
    LET i == getObject(objs, boundary_name)
    IN  IF boundary_name = <<>> \/ i = 0 \/ ~has_points(objs[i]) THEN <<>>
        ELSE LET bb == ShapeBoundBox(objs[i])
             IN  << <<DMul(bb.XMin, MM_TO_M), DMul(bb.YMin, MM_TO_M)>>,
                    <<DMul(bb.XMax, MM_TO_M), DMul(bb.YMin, MM_TO_M)>>,
                    <<DMul(bb.XMax, MM_TO_M), DMul(bb.YMax, MM_TO_M)>>,
                    <<DMul(bb.XMin, MM_TO_M), DMul(bb.YMax, MM_TO_M)>> >>

(* the placement the loop reads: pos_x, pos_y, base_elev, rotation_deg *)
read_placement(obj) ==
    [pos_x |-> DMul(DFromInt(obj.Base[1]), MM_TO_M),
     pos_y |-> DMul(DFromInt(obj.Base[2]), MM_TO_M),
     base_elev |-> DMul(DFromInt(obj.Base[3]), MM_TO_M),
     rotation_deg |-> DFromInt(obj.Angle)]

(* the loop's filters: the object goes on to become an equipment item *)
is_exported(obj, boundary_name, equipment_prefix) ==
    /\ ~(boundary_name # <<>> /\ obj.Name = boundary_name)
    /\ has_shape(obj)
    /\ ~(equipment_prefix # <<>> /\ ~startswith(obj.Name, equipment_prefix))
    /\ obj.TypeId \notin {"Draft::Wire", "Draft::Dimension", "Draft::Text", "Draft::Label"}

(* the dictionary appended for an object, given its envelope and height *)
equipment_entry(obj, env) ==
    [id |-> obj.Name,
     type |-> infer_equipment_type(obj.Name, obj.TypeId),
     envelope |-> env.envelope,
     height |-> env.height,
     base_elevation |-> round(read_placement(obj).base_elev, 3),
     truth_ref |-> <<"FreeCAD", DocName, obj.Name>>,
     clearances |-> [maintenance |-> DFromInt(2), operation |-> DFromDecimal(15, 1)]]

equipment_item(obj) == equipment_entry(obj, get_envelope(ShapeBoundBox(obj)))

RECURSIVE export_loop(_, _, _, _)
export_loop(objs, boundary_name, equipment_prefix, equipment) ==
    IF objs = <<>> THEN equipment
    ELSE export_loop(Tail(objs), boundary_name, equipment_prefix,
                     IF is_exported(Head(objs), boundary_name, equipment_prefix)
                     THEN Append(equipment, equipment_item(Head(objs)))
                     ELSE equipment)

(* sha256(content_str.encode()).hexdigest()[:16] behind "sha256:", kept as *)
(* the digest's argument: the sorted-key encoding of the value hashed      *)
content_hash_of_result(result) ==
    [prefix |-> "sha256:", hexdigits |-> 16,
     digest_of |-> <<result.project>> \o result.equipment]

content_hash(result) ==
    [prefix |-> "sha256:", hexdigits |-> 16, digest_of |-> result.equipment]

(* the result dictionary before the hash is computed *)
extract_result(objs, project_name, boundary_object, equipment_prefix, now, file_name) ==
    [project |-> [name |-> project_name, unit |-> "m"],
     site |-> [boundary |-> site_boundary(objs, boundary_object)],
     equipment |-> export_loop(objs, boundary_object, equipment_prefix, <<>>),
     placements |-> <<>>,
     metadata |-> [created_at |-> now,
                   created_by |-> "freecad-mcp/export_contract_json",
                   source_file |-> IF file_name # <<>> THEN file_name ELSE DocName]]

(* result["metadata"]["hash"] = ... *)
with_hash(result) ==
    [project |-> result.project, site |-> result.site, equipment |-> result.equipment,
     placements |-> result.placements,
     metadata |-> [created_at |-> result.metadata.created_at,
                   created_by |-> result.metadata.created_by,
                   source_file |-> result.metadata.source_file,
                   hash |-> content_hash(result)]]

(* the contract the script prints *)
extract_code(objs, project_name, boundary_object, equipment_prefix, now, file_name) ==
    with_hash(extract_result(objs, project_name, boundary_object, equipment_prefix, now,
                             file_name))

(***************************************************************************)
(* response_filters.py.  A dict is a function on its keys; obj.get(key) is *)
(* the value under the key, or None.                                       *)
(***************************************************************************)
COMPACT_OBJECT_FIELDS == {"Name", "Label", "TypeId", "Placement", "Shape"}

NoneValue == [of |-> "None", obj |-> 0]

dict_get(d, key) == IF key \in DOMAIN d THEN d[key] ELSE NoneValue

(* the filter that keeps the essential fields alone *)
filter_object_properties_essential(obj_data, detail_level) ==
    IF detail_level = "full" THEN obj_data
    ELSE [key \in COMPACT_OBJECT_FIELDS \cap DOMAIN obj_data |-> obj_data[key]]

(* filter_object_properties *)
filter_object_properties(obj_data, detail_level) ==
    IF detail_level = "full" THEN obj_data
    ELSE [key \in (COMPACT_OBJECT_FIELDS \cup {"success", "error", "message"})
                  \cap DOMAIN obj_data |-> obj_data[key]]

(* filter_objects_list *)
filter_objects_list(objs, detail_level) ==
    IF detail_level = "full" THEN objs
    ELSE [n \in DOMAIN objs |->
             [Name |-> dict_get(objs[n], "Name"), Label |-> dict_get(objs[n], "Label"),
              TypeId |-> dict_get(objs[n], "TypeId")]]

(* filter_contract_response *)
filter_contract_response(response, detail_level) ==
    IF detail_level = "full" THEN response
    ELSE [key \in DOMAIN response \ {"metadata", "debug_info", "timing"} |-> response[key]]

(* the host's answer: the contract parsed from the output, and the text    *)
(* returned, filtered by detail_level                                      *)
export_answer(contract, detail_level) ==
    [kind |-> "contract", value |-> contract,
     response |-> filter_contract_response(contract, detail_level)]

export_contract_json(project_name, boundary_object, equipment_prefix, detail_level, now, file_name) ==
    /\ args' = [fn |-> "export_contract_json", project_name |-> project_name,
                boundary_object |-> boundary_object,
                equipment_prefix |-> equipment_prefix, detail_level |-> detail_level]
    /\ ret' = export_answer(extract_code(objects, project_name, boundary_object,
                                         equipment_prefix, now, file_name),
                            detail_level)
    /\ last' = Result("export_contract_json", "exported", <<>>, <<>>, <<>>)
    /\ UNCHANGED <<objects, ncalls, options, output, built, extracted, connection>>

(***************************************************************************)
(* Remote execution.  freecad.execute_code(code) returns a dictionary:     *)
(* {success: True, message: output} when the script ran, {success: False,  *)
(* error: E} when it did not, in which case the document is as before.  A  *)
(* response is the text returned to the caller, a sequence of lines, each  *)
(* a sequence of strings, with the payloads sent to execute_code in order. *)
(***************************************************************************)
Errors == {"timeout", "NameError: name 'Draft' is not defined"}

Succeeded == [success |-> TRUE]
Refused(e) == [success |-> FALSE, error |-> e]
RemoteOutcomes == {Succeeded} \cup {Refused(e) : e \in Errors}

(* res.get(key, default) *)
res_get(res, key, default) == IF key \in DOMAIN res THEN res[key] ELSE default

Answer(text, sent) == [kind |-> "response", text |-> text, sent |-> sent]

SingleCallTools ==
    {"export_contract_json", "apply_placements", "export_glb",
     "create_equipment_envelope", "create_site_boundary"}

failure_text(tool) ==
    CASE tool = "export_contract_json" -> "Failed to extract contract: "
      [] tool = "apply_placements" -> "Failed to apply placements: "
      [] tool = "export_glb" -> "Failed to export: "
      [] tool = "create_equipment_envelope" -> "Failed to create envelope: "
      [] tool = "create_site_boundary" -> "Failed to create boundary: "

(* a single-call tool that goes on as if the call had succeeded *)
single_call_unchecked(tool, res) ==
    Answer(<< <<"Done: ", tool>> >>, <<tool, "get_active_screenshot">>)

(* if not res.get("success"): return "Failed to ...: {res.get('error')}" *)
single_call_failed(tool, res) ==
    Answer(<< <<failure_text(tool), res_get(res, "error", "Unknown error")>> >>, <<tool>>)

(* a single-call tool whose one execute_code call does not succeed *)
execute_code_failed(tool, res) ==
    /\ ~res_get(res, "success", FALSE)
    /\ args' = [fn |-> tool, outcomes |-> [call |-> res]]
    /\ ret' = single_call_failed(tool, res)
    /\ last' = Result(tool, "failed", <<>>, <<>>, <<>>)
    /\ UNCHANGED <<objects, ncalls, options, output, built, extracted, connection>>

(* export_glb when its call succeeds: the mesh is written, the document    *)
(* stays as it is                                                          *)
export_glb ==
    /\ args' = [fn |-> "export_glb", outcomes |-> [call |-> Succeeded]]
    /\ ret' = Answer(<< <<"Mesh exported:">> >>, <<"export_glb", "get_active_screenshot">>)
    /\ last' = Result("export_glb", "exported", <<>>, <<>>, <<>>)
    /\ UNCHANGED <<objects, ncalls, options, output, built, extracted, connection>>

(* the equipment step that goes on after a failure, strict or not *)
sitefit_equipment_step_lenient(st, struct, res, placements_data, strict) ==
    IF st.stopped # <<>> THEN st
    ELSE IF res_get(res, "success", FALSE)
    THEN [st EXCEPT !.objs = sitefit_equipment(@, struct, placements_data),
                    !.equipment = @ + 1,
                    !.sent = Append(@, "equip_code")]
    ELSE LET error_detail == res_get(res, "error", "Unknown error")
         IN  [st EXCEPT !.errors = Append(@, <<"Failed to create ">> \o struct.id
                                              \o <<": ", error_detail>>),
                        !.sent = Append(@, "equip_code"),
                        !.stopped = <<>>]

(* import_sitefit_contract, step by step.  st is [objs, equipment, errors, *)
(* sent, stopped]: the document, the count of equipment steps done, the    *)
(* errors collected, the payloads sent, and the strict-mode early return.  *)
sitefit_equipment_step(st, struct, res, placements_data, strict) ==
    IF st.stopped # <<>> THEN st
    ELSE IF res_get(res, "success", FALSE)
    THEN [st EXCEPT !.objs = sitefit_equipment(@, struct, placements_data),
                    !.equipment = @ + 1,
                    !.sent = Append(@, "equip_code")]
    ELSE LET error_detail == res_get(res, "error", "Unknown error")
         IN  [st EXCEPT !.errors = Append(@, <<"Failed to create ">> \o struct.id
                                              \o <<": ", error_detail>>),
                        !.sent = Append(@, "equip_code"),
                        !.stopped = IF strict
                                    THEN << <<"Equipment creation failed (strict mode):">>,
                                            <<"  Failed: ">> \o struct.id,
                                            <<"  Error: ", error_detail>> >>
                                    ELSE <<>>]

RECURSIVE sitefit_equipment_steps(_, _, _, _, _)
sitefit_equipment_steps(st, structures, results, placements_data, strict) ==
    IF structures = <<>> THEN st
    ELSE sitefit_equipment_steps(
             sitefit_equipment_step(st, Head(structures), Head(results), placements_data,
                                    strict),
             Tail(structures), Tail(results), placements_data, strict)

(* the boundary step: the wire is drawn when the call succeeds *)
sitefit_boundary_step(objs, res, type_id) ==
    IF res_get(res, "success", FALSE)
    THEN Append(objs, NewObject(unique_name(objs, WireName),
                                <<"S", "i", "t", "e", "B", "o", "u", "n", "d", "a", "r", "y">>,
                                NoId, type_id, <<0, 0>>, <<0, 0, 0>>, 0, <<50, 30>>, 0,
                                "import_sitefit_contract"))
    ELSE objs

(* the placement step on the document the equipment steps left *)
sitefit_placement_step(objs, res, placements_data) ==
    IF res_get(res, "success", FALSE)
    THEN sitefit_loop([objs |-> objs, updated |-> 0, errors |-> <<>>], placements_data)
    ELSE [objs |-> objs, updated |-> 0, errors |-> <<>>]

(* results["errors"] at the end: the equipment errors, then the placements *)
(* skipped                                                                 *)
sitefit_errors(eq, placed) ==
    eq.errors
    \o (IF placed.errors # <<>>
        THEN << <<"Placements skipped for missing equipment: ">>
                \o placed.errors[1].id >>
        ELSE <<>>)

(* the summary of an import that ran to its end *)
sitefit_summary(boundary_done, equipment, placements, roads, errors) ==
    << <<"Imported site-fit contract into '">> \o DocName \o <<"':">> >>
    \o (IF boundary_done THEN << <<"  - Boundary: 1">> >> ELSE <<>>)
    \o (IF equipment > 0 THEN << <<"  - Equipment: ", ToString(equipment)>> >> ELSE <<>>)
    \o (IF placements > 0 THEN << <<"  - Placements applied: ", ToString(placements)>> >>
        ELSE <<>>)
    \o (IF roads > 0 THEN << <<"  - Road segments: ", ToString(roads)>> >> ELSE <<>>)
    \o (IF errors # <<>>
        THEN << <<"  - Errors: ", ToString(Len(errors))>> >>
             \o [n \in 1..(IF Len(errors) < 3 THEN Len(errors) ELSE 3) |->
                    <<"    - ">> \o errors[n]]
        ELSE <<>>)

(* the road step: the group road_layer_name, then one open wire a segment, *)
(* labelled with the segment's id and put into the group; roads counts the *)
(* segments drawn                                                          *)
RoadLayerName ==
    <<"R", "o", "a", "d", "C", "e", "n", "t", "e", "r", "l", "i", "n", "e", "s">>

RECURSIVE sitefit_road_loop(_, _, _)
sitefit_road_loop(objs, segments, type_id) ==
    IF segments = <<>> THEN objs
    ELSE sitefit_road_loop(
             Append(objs, NewObject(unique_name(objs, WireName), Head(segments).id, NoId,
                                    type_id, <<0, 0>>, <<0, 0, 0>>, 0, Head(segments).end,
                                    0, "import_sitefit_contract")),
             Tail(segments), type_id)

sitefit_road_step(objs, res, segments, type_id) ==
    IF segments # <<>> /\ res_get(res, "success", FALSE)
    THEN [objs |-> sitefit_road_loop(
                       Append(objs, NewObject(unique_name(objs, RoadLayerName),
                                              RoadLayerName, NoId,
                                              "App::DocumentObjectGroup", <<0, 0>>,
                                              <<0, 0, 0>>, 0, <<0, 0>>, 0,
                                              "import_sitefit_contract")),
                       segments, type_id),
          roads |-> Len(segments)]
    ELSE [objs |-> objs, roads |-> 0]

(* the road step, the view step and the text the import ends with *)
sitefit_finish(eq, placements_data, boundary_done, placed, segments, road) ==
    [objs |-> road.objs,
     answer |-> Answer(sitefit_summary(boundary_done, eq.equipment, placed.updated,
                                       road.roads, sitefit_errors(eq, placed)),
                       eq.sent
                       \o (IF placements_data # <<>> THEN <<"placement_code">> ELSE <<>>)
                       \o (IF segments # <<>>
                           THEN <<"group_code">> \o [n \in DOMAIN segments |-> "road_code"]
                           ELSE <<>>)
                       \o <<"view_code", "get_active_screenshot">>)]

(* the placement step, handed on to the steps that follow it *)
sitefit_after_placement(eq, placements_data, boundary_done, placed, segments, res, type_id) ==
    sitefit_finish(eq, placements_data, boundary_done, placed, segments,
                   sitefit_road_step(placed.objs, res, segments, type_id))

(* the steps after the equipment steps *)
sitefit_after_equipment(eq, placements_data, boundary_done, outcomes, segments, type_id) ==
    IF eq.stopped # <<>>
    THEN [objs |-> eq.objs, answer |-> Answer(eq.stopped, eq.sent)]
    ELSE sitefit_after_placement(
             eq, placements_data, boundary_done,
             IF placements_data # <<>>
             THEN sitefit_placement_step(eq.objs, outcomes.placement, placements_data)
             ELSE [objs |-> eq.objs, updated |-> 0, errors |-> <<>>],
             segments, outcomes.roads, type_id)

sitefit_steps(objs, structures, placements_data, create_boundary, strict, outcomes, type_id, segments) ==
    IF ~res_get(outcomes.document, "success", TRUE)
    THEN [objs |-> objs,
          answer |-> Answer(<< <<"Document creation failed: ",
                                 res_get(outcomes.document, "error", "Unknown error")>> >>,
                            <<"doc_check">>)]
    ELSE sitefit_after_equipment(
             sitefit_equipment_steps(
                 [objs |-> IF create_boundary
                           THEN sitefit_boundary_step(objs, outcomes.boundary, type_id)
                           ELSE objs,
                  equipment |-> 0, errors |-> <<>>,
                  sent |-> <<"doc_check">>
                           \o (IF create_boundary THEN <<"boundary_code">> ELSE <<>>),
                  stopped |-> <<>>],
                 structures, outcomes.equipment, placements_data, strict),
             placements_data,
             create_boundary /\ res_get(outcomes.boundary, "success", FALSE),
             outcomes, segments, type_id)

(* import_sitefit_contract with the outcome of each of its remote calls *)
import_sitefit_contract_steps(structures, placements_data, create_boundary, strict, outcomes, type_id, segments) ==
    /\ ncalls < MaxCalls
    /\ ncalls' = ncalls + 1
    /\ args' = [fn |-> "import_sitefit_contract", outcomes |-> outcomes,
                create_boundary |-> create_boundary, strict |-> strict,
                structures |-> structures, placements_data |-> placements_data,
                segments |-> segments]
    /\ objects' = sitefit_steps(objects, structures, placements_data, create_boundary,
                                strict, outcomes, type_id, segments).objs
    /\ ret' = sitefit_steps(objects, structures, placements_data, create_boundary,
                            strict, outcomes, type_id, segments).answer
    /\ last' = Result("import_sitefit_contract", "returned", placements_data, <<>>, <<>>)
    /\ UNCHANGED <<options, output, built, extracted, connection>>

(* import_solutions_as_layers with one outcome for all of its calls: the   *)
(* runtime answers every call, or none                                     *)
layers_summary(solutions) ==
    << <<"Created ", ToString(Len(solutions)), " solution layers in '">> \o DocName
       \o <<"':">> >>
    \o [n \in DOMAIN solutions |->
           <<"  - ">> \o LayerName(n) \o <<IF n = 1 THEN " [VISIBLE]" ELSE " [hidden]">>]

import_solutions_as_layers_steps(solutions, res) ==
    /\ ncalls < MaxCalls
    /\ ncalls' = ncalls + 1
    /\ args' = [fn |-> "import_solutions_as_layers", outcomes |-> [call |-> res]]
    /\ objects' = IF res_get(res, "success", FALSE)
                  THEN layers_loop(Append(objects,
                                          GroupObject(objects, CommonName, CommonName)),
                                   solutions, 1, GroupCascade)
                  ELSE objects
    /\ ret' = Answer(layers_summary(solutions),
                     <<"doc_code", "common_code">>
                     \o [n \in 1..(2 * Len(solutions)) |->
                            IF n % 2 = 1 THEN "layer_code" ELSE "visibility_code"]
                     \o <<"view_code", "get_active_screenshot">>)
    /\ last' = Result("import_solutions_as_layers", "returned", <<>>, <<>>, <<>>)
    /\ UNCHANGED <<options, output, built, extracted, connection>>

(* set_layout_visibility *)
visibility_summary(visible_layer, show_all) ==
    IF show_all
    THEN << <<"All solution layers in '">> \o DocName
            \o <<"' are now visible for comparison.">> >>
    ELSE IF visible_layer # <<>>
    THEN << <<"Layer '">> \o visible_layer
            \o <<"' is now visible. Other solution layers are hidden.">> >>
    ELSE << <<"All solution layers in '">> \o DocName
            \o <<"' are now hidden. Only Common layer visible.">> >>

(* toggle_code: every group whose Name starts with "Layout_", in document  *)
(* order, is shown when show_all or when it is the layer named, and hidden *)
(* otherwise                                                               *)
layer_groups(objs) ==
    {n \in DOMAIN objs : /\ objs[n].TypeId = "App::DocumentObjectGroup"
                         /\ startswith(objs[n].Name, LayoutPrefix)}

RECURSIVE toggle_loop(_, _, _, _, _)
toggle_loop(objs, n, visible_layer, show_all, cascade) ==
    IF n > Len(objs) THEN objs
    ELSE toggle_loop(
             IF n \in layer_groups(objs)
             THEN set_visibility(objs, n,
                                 show_all \/ (visible_layer # <<>>
                                              /\ objs[n].Name = visible_layer),
                                 cascade)
             ELSE objs,
             n + 1, visible_layer, show_all, cascade)

set_layout_visibility(visible_layer, show_all, res) ==
    /\ args' = [fn |-> "set_layout_visibility", outcomes |-> [call |-> res],
                visible_layer |-> visible_layer, show_all |-> show_all]
    /\ objects' = IF res_get(res, "success", FALSE)
                  THEN toggle_loop(objects, 1, visible_layer, show_all, GroupCascade)
                  ELSE objects
    /\ ret' = Answer(visibility_summary(visible_layer, show_all),
                     <<"toggle_code", "get_active_screenshot">>)
    /\ last' = Result("set_layout_visibility", "returned", <<>>, <<>>, <<>>)
    /\ UNCHANGED <<ncalls, options, output, built, extracted, connection>>

(* finalize_selected_layout, with generate_techdraw and                    *)
(* cleanup_other_options false.  layer_code: the groups whose Label starts *)
(* with "Layout_"; the one labelled layer_name is shown, every other one   *)
(* is hidden or, with delete_other_layers, removed after the members of    *)
(* its Group.  doc.removeObject removes the one object named.              *)
layout_groups(objs) ==
    {n \in DOMAIN objs : /\ objs[n].TypeId = "App::DocumentObjectGroup"
                         /\ startswith(objs[n].Label, LayoutPrefix)}

other_layers(objs, layer_name) ==
    {n \in layout_groups(objs) : objs[n].Label # layer_name}

RECURSIVE show_or_hide_loop(_, _, _, _, _)
show_or_hide_loop(objs, n, layer_name, delete_other_layers, cascade) ==
    IF n > Len(objs) THEN objs
    ELSE show_or_hide_loop(
             IF n \in layout_groups(objs) /\ objs[n].Label = layer_name
             THEN set_visibility(objs, n, TRUE, cascade)
             ELSE IF n \in layout_groups(objs) /\ ~delete_other_layers
             THEN set_visibility(objs, n, FALSE, cascade)
             ELSE objs,
             n + 1, layer_name, delete_other_layers, cascade)

removeObjects(objs, names) ==
    LET kept == SelectSeq(objs, LAMBDA o : o.Name \notin names)
    IN  [n \in DOMAIN kept |->
            IF kept[n].InGroup \in names THEN [kept[n] EXCEPT !.InGroup = <<>>]
            ELSE kept[n]]

finalize_layer_code(objs, layer_name, delete_other_layers, cascade) ==
    LET others == other_layers(objs, layer_name)
        names == {objs[n].Name : n \in others}
        children == {objs[n].Name : n \in {m \in DOMAIN objs : objs[m].InGroup \in names}}
        shown == show_or_hide_loop(objs, 1, layer_name, delete_other_layers, cascade)
    IN  IF delete_other_layers THEN removeObjects(shown, names \cup children) ELSE shown

finalize_summary(objs, layer_name, delete_other_layers, ran) ==
    LET others == IF ran /\ layer_name # <<>>
                  THEN Cardinality(other_layers(objs, layer_name)) ELSE 0
    IN  << <<"Finalized layout: ">> \o DocName >>
        \o (IF layer_name # <<>> THEN << <<"  Selected layer: ">> \o layer_name >>
            ELSE <<>>)
        \o (IF others > 0 /\ ~delete_other_layers
            THEN << <<"  Other layers hidden: ", others>> >> ELSE <<>>)
        \o (IF others > 0 /\ delete_other_layers
            THEN << <<"  Other layers deleted: ", others>> >> ELSE <<>>)

finalize_selected_layout(layer_name, delete_other_layers, res) ==
    LET ran == res_get(res, "success", FALSE)
    IN  /\ args' = [fn |-> "finalize_selected_layout", outcomes |-> [call |-> res],
                    layer_name |-> layer_name,
                    delete_other_layers |-> delete_other_layers]
        /\ IF check_connection_raises
           THEN /\ objects' = objects
                /\ ret' = [kind |-> "raised",
                           text |-> <<AttributeError("check_connection")>>,
                           sent |-> <<>>]
                /\ last' = Result("finalize_selected_layout", "raised", <<>>, <<>>,
                                  <<AttributeError("check_connection")>>)
           ELSE /\ objects' = IF ran /\ layer_name # <<>>
                                THEN finalize_layer_code(objects, layer_name,
                                                         delete_other_layers,
                                                         GroupCascade)
                                ELSE objects
                /\ ret' = Answer(finalize_summary(objects, layer_name,
                                                  delete_other_layers, ran),
                                 <<"activate_code">>
                                 \o (IF layer_name # <<>> THEN <<"layer_code">> ELSE <<>>)
                                 \o <<"get_active_screenshot">>)
                /\ last' = Result("finalize_selected_layout", "returned", <<>>, <<>>, <<>>)
        /\ UNCHANGED <<ncalls, options, output, built, extracted, connection>>

(***************************************************************************)
(* The connection handle of server.py, and the tools taken from their      *)
(* first line: each begins by asking for the connection.                   *)
(***************************************************************************)
MaxPings == 3

(* the global handle: None, or the FreeCADConnection it holds, told apart  *)
(* by the order of construction; with the pings sent and the disconnects   *)
(* made so far, each naming its connection                                 *)
NoConnection == 0

(* the server after a startup that reached FreeCAD: connection 1, pinged   *)
(* once                                                                    *)
Connected ==
    [handle |-> 1, constructed |-> 1, pings |-> <<[conn |-> 1, answer |-> "true"]>>,
     disconnects |-> <<>>]

(* the server before it has reached FreeCAD *)
Disconnected ==
    [handle |-> NoConnection, constructed |-> 0, pings |-> <<>>, disconnects |-> <<>>]

(* self.server.ping(): its value, or an exception *)
PingAnswers == {"true", "false", "raises"}

(* the handle that survives a ping that did not succeed *)
get_freecad_connection_keeping(c, ping) ==
    IF c.handle # NoConnection THEN [connection |-> c, raised |-> FALSE]
    ELSE [connection |-> [c EXCEPT !.handle = c.constructed + 1,
                                   !.constructed = c.constructed + 1,
                                   !.pings = Append(@, [conn |-> c.constructed + 1,
                                                        answer |-> ping])],
          raised |-> ping # "true"]

(* get_freecad_connection(): the handle as it is when there is one, else a *)
(* new FreeCADConnection, pinged, and dropped again when the ping fails    *)
get_freecad_connection(c, ping) ==
    IF c.handle # NoConnection THEN [connection |-> c, raised |-> FALSE]
    ELSE [connection |-> [c EXCEPT !.handle = IF ping = "true" THEN c.constructed + 1
                                              ELSE NoConnection,
                                   !.constructed = c.constructed + 1,
                                   !.pings = Append(@, [conn |-> c.constructed + 1,
                                                        answer |-> ping])],
          raised |-> ping # "true"]

(* the exception get_freecad_connection raises, as the caller of the tool  *)
(* sees it                                                                 *)
ConnectionRaised ==
    [kind |-> "raised", text |-> << <<"Failed to connect to FreeCAD at ", "host:port">> >>,
     sent |-> <<>>]

(* a ping is still allowed by the bound *)
MayPing == connection.handle # NoConnection \/ Len(connection.pings) < MaxPings

(* a tool asking for the connection outside of any request: the startup of *)
(* server_lifespan, which logs the exception and goes on                   *)
startup(ping) ==
    /\ MayPing
    /\ connection' = get_freecad_connection(connection, ping).connection
    /\ UNCHANGED <<output, built, extracted, objects, options, last, ncalls, args, ret>>

(* the shutdown of server_lifespan *)
shutdown ==
    /\ connection' = IF connection.handle # NoConnection
                     THEN [connection EXCEPT !.disconnects = Append(@, connection.handle),
                                             !.handle = NoConnection]
                     ELSE connection
    /\ UNCHANGED <<output, built, extracted, objects, options, last, ncalls, args, ret>>

(* apply_placements from its arguments.  contract_json is None, a str or a *)
(* dict; a contract is the set of its keys with its placements; a str is   *)
(* the text of a contract, the empty str having none.  contract_path names *)
(* a file holding the text of a contract, or no file.                      *)
PyNone == [type |-> "None"]
EmptyStr == [type |-> "str", keys |-> {}, placements |-> <<>>, text |-> "empty"]
ContractValue(type, keys, placements) ==
    [type |-> type, keys |-> keys, placements |-> placements, text |-> "contract"]

(* bool(value) *)
truthy(value) ==
    CASE value.type = "None" -> FALSE
      [] value.type = "str" -> value.text # "empty"
      [] value.type = "dict" -> value.keys # {}
      [] value.type = "path" -> TRUE

(* json.load(f) / json.loads(contract_json) / the dict itself *)
load_contract(value) == [keys |-> value.keys, placements |-> value.placements]

(* contract.get("placements", []) *)
contract_placements(contract) ==
    IF "placements" \in contract.keys THEN contract.placements ELSE <<>>

(* the text after a call that succeeded *)
applied_text(st) ==
    << <<"Applied placements:">>, <<"- Updated: ", ToString(Len(st.updated)), " objects">> >>
    \o (IF st.errors # <<>> THEN << <<"- Errors: ", ToString(Len(st.errors))>> >> ELSE <<>>)

(* the tool that sends its script for a contract without placements *)
apply_placements_unvalidated(objs, contract_json, contract_path, res, st) ==
    IF truthy(contract_path) /\ ~contract_path.exists
    THEN [objs |-> objs, status |-> "failed",
          answer |-> Answer(<< <<"Failed to apply placements: ", "No such file">> >>, <<>>)]
    ELSE IF ~truthy(contract_path) /\ ~truthy(contract_json)
    THEN [objs |-> objs, status |-> "rejected",
          answer |-> Answer(<< <<"Either contract_json or contract_path must be provided">> >>,
                            <<>>)]
    ELSE IF ~res_get(res, "success", FALSE)
    THEN [objs |-> objs, status |-> "failed",
          answer |-> single_call_failed("apply_placements", res)]
    ELSE [objs |-> st.objs, status |-> "applied",
          answer |-> Answer(applied_text(st), <<"apply_placements", "get_active_screenshot">>)]

(* the body of apply_placements once it holds the connection; st is what   *)
(* the script makes of the document when it is run                         *)
apply_placements_body(objs, contract_json, contract_path, res, st) ==
    IF truthy(contract_path) /\ ~contract_path.exists
    THEN [objs |-> objs, status |-> "failed",
          answer |-> Answer(<< <<"Failed to apply placements: ", "No such file">> >>, <<>>)]
    ELSE IF ~truthy(contract_path) /\ ~truthy(contract_json)
    THEN [objs |-> objs, status |-> "rejected",
          answer |-> Answer(<< <<"Either contract_json or contract_path must be provided">> >>,
                            <<>>)]
    ELSE IF st.placements = <<>>
    THEN [objs |-> objs, status |-> "rejected",
          answer |-> Answer(<< <<"No placements found in contract">> >>, <<>>)]
    ELSE IF ~res_get(res, "success", FALSE)
    THEN [objs |-> objs, status |-> "failed",
          answer |-> single_call_failed("apply_placements", res)]
    ELSE [objs |-> st.objs, status |-> "applied",
          answer |-> Answer(applied_text(st), <<"apply_placements", "get_active_screenshot">>)]

(* the contract the tool reads its placements from *)
contract_source(contract_json, contract_path) ==
    IF truthy(contract_path) THEN contract_path ELSE contract_json

(* the placements, and the document after the script has run on them *)
apply_run(objs, placements) ==
    [placements |-> placements,
     objs |-> apply_loop([objs |-> objs, updated |-> <<>>, errors |-> <<>>],
                         placements).objs,
     updated |-> apply_loop([objs |-> objs, updated |-> <<>>, errors |-> <<>>],
                            placements).updated,
     errors |-> apply_loop([objs |-> objs, updated |-> <<>>, errors |-> <<>>],
                           placements).errors]

apply_placements_from(objs, contract_json, contract_path, res) ==
    apply_placements_body(
        objs, contract_json, contract_path, res,
        apply_run(objs, contract_placements(
                            load_contract(contract_source(contract_json, contract_path)))))

(* a tool whose first line raised, or its body's outcome *)
tool_outcome(got, objs, body) ==
    IF got.raised THEN [objs |-> objs, status |-> "raised", answer |-> ConnectionRaised]
    ELSE body

apply_placements_tool(contract_json, contract_path, ping, res) ==
    /\ MayPing
    /\ ncalls < MaxCalls
    /\ ncalls' = ncalls + 1
    /\ connection' = get_freecad_connection(connection, ping).connection
    /\ args' = [fn |-> "apply_placements", contract_json |-> contract_json,
                contract_path |-> contract_path, outcomes |-> [call |-> res]]
    /\ objects' = tool_outcome(get_freecad_connection(connection, ping), objects,
                               apply_placements_from(objects, contract_json, contract_path,
                                                     res)).objs
    /\ ret' = tool_outcome(get_freecad_connection(connection, ping), objects,
                           apply_placements_from(objects, contract_json, contract_path,
                                                 res)).answer
    /\ last' = Result("apply_placements",
                      tool_outcome(get_freecad_connection(connection, ping), objects,
                                   apply_placements_from(objects, contract_json,
                                                         contract_path, res)).status,
                      <<>>, <<>>, <<>>)
    /\ UNCHANGED <<options, output, built, extracted>>

(***************************************************************************)
(* edit_object (server.py), for the one edit that matters to placement:    *)
(* obj_properties = {"Placement": {"Base": {"z": z}}} on the object named  *)
(* obj_name.  z is in millimeters.                                         *)
(***************************************************************************)
edit_object(obj_name, z) ==
    LET i == getObject(objects, obj_name)
    IN  /\ i # 0
        /\ objects[i].Base[3] # z
        /\ objects' = [objects EXCEPT ![i].Base[3] = z]
        /\ last' = Result("edit_object", "edited", <<>>, <<>>, <<>>)
        /\ UNCHANGED <<ncalls, options, output, built, extracted, args, ret, connection>>

(***************************************************************************)
Affixes == {<<>>, <<"a">>, <<SP>>, <<QT>>, <<BS>>, <<RB>>, <<LB>>, <<LB, RB>>}

Strs == StringsUpTo(StrChars, MaxStrLen)
Keys == {<<"a">>, <<QT, RB>>}

FlatObjs == {JObj(<<>>)} \cup {JObj(<< <<k, JStr(v)>> >>) : k \in Keys, v \in Strs}

Objs ==
    FlatObjs
    \cup {JObj(<< <<k, o>> >>) : k \in Keys, o \in FlatObjs}
    \cup {JObj(<< <<(<<"a">>), JStr(v)>>, <<(<<QT, RB>>), o>> >>) : v \in Strs, o \in FlatObjs}

Pending == [kind |-> "pending", value |-> JNull]

(* no function under test called yet *)
NoArgs == [fn |-> "none"]
NoRet == [kind |-> "none"]
IdleCall == args = NoArgs /\ ret = NoRet

InitDoc ==
    /\ objects = <<>>
    /\ options = <<>>
    /\ last = NoCall
    /\ ncalls = 0
    /\ connection = Connected

InitExtract ==
    /\ InitDoc
    /\ IdleCall
    /\ extracted = Pending
    /\ \/ \E p \in Affixes, o \in Objs, x \in Affixes :
            /\ built = [structured |-> TRUE, prefix |-> p, obj |-> o,
                        body |-> json_dumps(o), suffix |-> x]
            /\ output = p \o json_dumps(o) \o x
       \/ \E r \in StringsUpTo(RawChars, MaxRawLen), x \in Affixes :
            /\ built = [structured |-> FALSE, prefix |-> <<>>, obj |-> JNull,
                        body |-> r, suffix |-> x]
            /\ output = r \o x

(* result = _extract_json_from_output(output) *)
ExtractJson ==
    /\ extracted = Pending
    /\ extracted' = _extract_json_from_output(output)
    /\ UNCHANGED <<output, built, objects, options, last, ncalls, args, ret, connection>>

NextExtract == ExtractJson

SpecExtract == InitExtract /\ [][NextExtract]_vars

(***************************************************************************)
(* Specifications of the document tools                                    *)
(***************************************************************************)
RectFootprints == {<<2, 4>>}
Diameters == {2}
Centers == {<<3, 5>>}
QuarterTurns == {0, 90, 180, 270}
AnyRotations == {0, 90, 180, 270, -90, 45, 450}

UpTo(S, n) == UNION {[1..k -> S] : k \in 0..n}

Structures ==
    {Structure(id, "rect", fp[1], fp[2], 0) : id \in Ids, fp \in RectFootprints}
    \cup {Structure(id, "circle", 0, 0, d) : id \in Ids, d \in Diameters}

StructureLists ==
    {<<>>} \cup {<<s>> : s \in Structures}
    \cup {<<Structure(I_UNDER, "rect", fp[1], fp[2], 0),
             Structure(I_HYPHEN, "rect", fp[1], fp[2], 0)>> : fp \in RectFootprints}

PlacementsAt(ids, rotations) ==
    {Placement(id, NoId, c[1], c[2], r) : id \in ids, c \in Centers, r \in rotations}

OnePlacement(P) == {<<>>} \cup {<<p>> : p \in P}

IdleExtract ==
    /\ output = <<>>
    /\ built = [structured |-> FALSE, prefix |-> <<>>, obj |-> JNull,
                body |-> <<>>, suffix |-> <<>>]
    /\ extracted = Pending

Init == IdleExtract /\ InitDoc /\ IdleCall

(* the placement tools on rectangular and circular equipment *)
Next ==
    \/ \E id \in Ids, fp \in RectFootprints, r \in QuarterTurns :
          create_equipment_envelope(id, "rectangle", fp[1], fp[2], r)
    \/ \E id \in Ids, d \in Diameters :
          create_equipment_envelope(id, "circle", d, d, 0)
    \/ \E ss \in StructureLists, ps \in OnePlacement(PlacementsAt(Ids, QuarterTurns)) :
          import_sitefit_contract(ss, ps, TRUE)
    \/ \E ps \in OnePlacement(PlacementsAt(Ids, QuarterTurns)) :
          apply_placements(ps)

Spec == Init /\ [][Next]_vars

(* the four tools that create boxes, for any rotation_deg *)
OneSolution(rotations) ==
    {<<>>} \cup
    {<< [structures |-> <<Structure(I_HYPHEN, "rect", fp[1], fp[2], 0)>>,
         placements |-> <<Placement(NoId, I_HYPHEN, c[1], c[2], r)>>] >> :
        fp \in RectFootprints, c \in Centers, r \in rotations}

NextCreate ==
    \/ \E id \in Ids, fp \in RectFootprints, r \in AnyRotations :
          create_equipment_envelope(id, "rectangle", fp[1], fp[2], r)
    \/ \E ss \in StructureLists, ps \in OnePlacement(PlacementsAt(Ids, AnyRotations)) :
          import_sitefit_contract(ss, ps, FALSE)
    \/ \E sols \in OneSolution(AnyRotations) :
          import_solutions_as_layers(sols)
    \/ \E sols \in OneSolution(AnyRotations), single \in BOOLEAN :
          present_layout_options(sols, single)

SpecCreate == Init /\ [][NextCreate]_vars

(* batches of placements on documents whose names, labels and ids collide *)
MaxBatch == 3

BatchPlacements ==
    {Placement(NoId, NoId, 3, 5, 90),
     Placement(I_HYPHEN, NoId, 3, 5, 90),
     Placement(NoId, I_UNDER, 7, 1, 180)}

BatchSolutions ==
    LET sol == [structures |-> <<Structure(I_HYPHEN, "rect", 2, 4, 0)>>, placements |-> <<>>]
    IN  {<<sol>>, <<sol, sol>>}

NextBatch ==
    \/ \E id \in Ids : create_equipment_envelope(id, "rectangle", 2, 4, 0)
    \/ \E sols \in BatchSolutions : import_solutions_as_layers(sols)
    \/ \E ps \in UpTo(BatchPlacements, MaxBatch) :
          import_sitefit_contract(<<Structure(I_HYPHEN, "rect", 2, 4, 0)>>, ps, TRUE)
    \/ \E ps \in UpTo(BatchPlacements, MaxBatch) : apply_placements(ps)

SpecBatch == Init /\ [][NextBatch]_vars

(* placing equipment, boxes and cylinders, that stands at an elevation *)
Elevations == {0, 500}

ObjectNames == {I_UNDER}

PlaceStructureLists ==
    {<<>>, <<Structure(I_UNDER, "circle", 0, 0, 2), Structure(I_HYPHEN, "rect", 2, 4, 0)>>}

NextPlace ==
    \/ \E id \in Ids, r \in {0, 90} : create_equipment_envelope(id, "rectangle", 2, 4, r)
    \/ \E id \in Ids : create_equipment_envelope(id, "circle", 2, 2, 0)
    \/ \E n \in ObjectNames, z \in Elevations : edit_object(n, z)
    \/ \E ss \in PlaceStructureLists, ps \in OnePlacement(PlacementsAt(Ids, QuarterTurns)) :
          import_sitefit_contract(ss, ps, TRUE)
    \/ \E ps \in OnePlacement(PlacementsAt(Ids, QuarterTurns)) : apply_placements(ps)

SpecPlace == Init /\ [][NextPlace]_vars

(* contracts whose placements name the equipment with "id", with           *)
(* "structure_id", or with both keys                                       *)
PlacementKeys ==
    {<<I_UNDER, NoId>>, <<NoId, I_UNDER>>, <<I_HYPHEN, NoId>>, <<NoId, I_HYPHEN>>,
     <<I_UNDER, I_HYPHEN>>}

KeyedPlacements ==
    {Placement(k[1], k[2], c[1], c[2], r) : k \in PlacementKeys, c \in Centers, r \in {0, 90}}

NextAlias ==
    \E ss \in StructureLists, ps \in OnePlacement(KeyedPlacements) :
        import_sitefit_contract(ss, ps, TRUE)

SpecAlias == Init /\ [][NextAlias]_vars

(* exports of documents built by the tools: the equipment of the example,  *)
(* a site boundary and the groups of a layered import                      *)
TK_101 == <<"T", "K", "-", "1", "0", "1">>
P_50 == <<"P", "-", "5", "0">>

SiteBoundaryName == <<"S", "i", "t", "e", "B", "o", "u", "n", "d", "a", "r", "y">>
BoundaryObjects == {StrNone, WireName, SiteBoundaryName}
Prefixes == {<<>>, <<"T", "K", "-">>}
(* project name, creation time, file of the document and detail level *)
ExportRuns ==
    {[project_name |-> "plant-a", now |-> "2024-01-01T00:00:00Z", file_name |-> <<>>,
      detail_level |-> "compact"],
     [project_name |-> "plant-b", now |-> "2024-06-30T12:00:00Z",
      file_name |-> <<"p", ".", "F", "C", "S", "t", "d">>, detail_level |-> "full"]}

NextExport ==
    \/ create_equipment_envelope(TK_101, "circle", 12, 12, 0)
    \/ create_equipment_envelope(P_50, "rectangle", 2, 4, 0)
    \/ \E t \in WireTypeIds : create_site_boundary(50, 30, SiteBoundaryName, t)
    \/ \E sols \in OneSolution({0}) : import_solutions_as_layers(sols)
    \/ \E ps \in OnePlacement(PlacementsAt({P_50}, {90})) : apply_placements(ps)
    \/ \E run \in ExportRuns, b \in BoundaryObjects, pre \in Prefixes :
          export_contract_json(run.project_name, b, pre, run.detail_level, run.now,
                               run.file_name)

SpecExport == Init /\ [][NextExport]_vars

(* tools called while the runtime may refuse any call *)
StepOutcomes == {Succeeded, Refused("timeout")}

RemoteStructures ==
    <<Structure(I_UNDER, "circle", 0, 0, 2), Structure(I_HYPHEN, "rect", 2, 4, 0)>>

RemotePlacements == <<Placement(I_HYPHEN, NoId, 3, 5, 90)>>

(* the contract's road_network: one segment, or none.  A contract has its  *)
(* boundary drawn or its roads, so one outcome serves for the two steps.   *)
RoadSegments == << [id |-> <<"R", "1">>, end |-> <<50, 0>>] >>

RemoteContracts ==
    {[create_boundary |-> TRUE, segments |-> <<>>, type_id |-> "Part::Part2DObjectPython"],
     [create_boundary |-> TRUE, segments |-> <<>>, type_id |-> "Draft::Wire"],
     [create_boundary |-> FALSE, segments |-> RoadSegments, type_id |-> "Draft::Wire"]}

SitefitOutcomes(structures) ==
    [document : StepOutcomes, boundary : StepOutcomes,
     equipment : [1..Len(structures) -> StepOutcomes], placement : StepOutcomes,
     roads : StepOutcomes]

NextRemote ==
    \/ \E tool \in SingleCallTools, e \in Errors : execute_code_failed(tool, Refused(e))
    \/ create_equipment_envelope(I_HYPHEN, "rectangle", 2, 4, 0)
    \/ \E ps \in OnePlacement(PlacementsAt({I_HYPHEN}, {0, 90})) : apply_placements(ps)
    \/ export_glb
    \/ \E contract \in RemoteContracts, strict \in BOOLEAN,
          outcomes \in {o \in SitefitOutcomes(RemoteStructures) : o.boundary = o.roads} :
          import_sitefit_contract_steps(RemoteStructures, RemotePlacements,
                                        contract.create_boundary, strict, outcomes,
                                        contract.type_id, contract.segments)
    \/ \E sols \in OneSolution({0}), res \in StepOutcomes :
          import_solutions_as_layers_steps(sols, res)
    \/ \E layer \in {<<>>, LayerName(1)}, show_all \in BOOLEAN, res \in StepOutcomes :
          set_layout_visibility(layer, show_all, res)

SpecRemote == Init /\ [][NextRemote]_vars

(* the two conversions, on floats: value * M_TO_MM on the way into the     *)
(* document, value * MM_TO_M on the way out                                *)
meters_to_native_twice(x) == DMul(DMul(x, DFromInt(M_TO_MM)), DFromInt(M_TO_MM))

meters_to_native(x) == DMul(x, DFromInt(M_TO_MM))

native_to_meters(v) == DMul(v, MM_TO_M)

(* contract lengths in meters: num / 10^digits *)
LengthNumerators == {0, 2, 4, 7, 9, 12, 13, 14, 18, 85, 6000}
LengthDecimals == {0, 1, 2, 3, 4}

InitUnits ==
    /\ IdleExtract
    /\ InitDoc
    /\ ret = NoRet
    /\ \E num \in LengthNumerators, digits \in LengthDecimals :
          args = [fn |-> "convert", num |-> num, digits |-> digits,
                  x |-> DFromDecimal(num, digits)]

(* a length is written into the document *)
WriteLength ==
    /\ ret = NoRet
    /\ ret' = [kind |-> "native", native |-> meters_to_native(args.x)]
    /\ UNCHANGED <<args, output, built, extracted, objects, options, last, ncalls, connection>>

(* and read back into a contract *)
ReadLength ==
    /\ ret.kind = "native"
    /\ ret' = [kind |-> "meters", native |-> ret.native,
               meters |-> native_to_meters(ret.native)]
    /\ UNCHANGED <<args, output, built, extracted, objects, options, last, ncalls, connection>>

NextUnits == WriteLength \/ ReadLength

SpecUnits == InitUnits /\ [][NextUnits]_vars

(* the server from before its startup, on a document FreeCAD already holds *)
SolvedPlacements == <<Placement(I_HYPHEN, NoId, 3, 5, 90)>>

ContractJsons ==
    {PyNone, EmptyStr,
     ContractValue("dict", {}, <<>>),
     ContractValue("dict", {"project"}, <<>>),
     ContractValue("str", {"project", "placements"}, <<>>),
     ContractValue("str", {"project", "placements"}, SolvedPlacements)}

File(exists, keys, placements) ==
    [type |-> "path", exists |-> exists, keys |-> keys, placements |-> placements]

ContractPaths ==
    {PyNone,
     File(FALSE, {}, <<>>),
     File(TRUE, {"project"}, <<>>),
     File(TRUE, {"project", "placements"}, SolvedPlacements)}

ServerDocuments ==
    {<<>>, <<envelope_object(<<>>, I_HYPHEN, "rectangle", 2, 4, 0)>>}

InitServer ==
    /\ IdleExtract
    /\ IdleCall
    /\ options = <<>>
    /\ last = NoCall
    /\ ncalls = 0
    /\ objects \in ServerDocuments
    /\ connection = Disconnected

NextServer ==
    \/ \E ping \in PingAnswers : startup(ping)
    \/ shutdown
    \/ \E contract_json \in ContractJsons, contract_path \in ContractPaths,
          ping \in PingAnswers, res \in StepOutcomes :
          apply_placements_tool(contract_json, contract_path, ping, res)

SpecServer == InitServer /\ [][NextServer]_vars

(* the three filters on small dictionaries and lists *)
ObjectKeys == {"Name", "Label", "Shape", "ViewObject", "success", "Visibility"}
ResponseKeys == {"project", "equipment", "placements", "metadata", "debug_info", "timing"}
ListKeys == {"Name", "TypeId", "Visibility"}

(* the dict of object j under the keys given *)
DictOn(keys, j) == [key \in keys |-> [of |-> key, obj |-> j]]

FilterInputs ==
    {[fn |-> "filter_object_properties", input |-> DictOn(keys, 1)] :
        keys \in SUBSET ObjectKeys}
    \cup {[fn |-> "filter_contract_response", input |-> DictOn(keys, 1)] :
             keys \in SUBSET ResponseKeys}
    \cup {[fn |-> "filter_objects_list", input |-> <<>>]}
    \cup {[fn |-> "filter_objects_list", input |-> <<DictOn(k1, 1)>>] :
             k1 \in SUBSET ListKeys}
    \cup {[fn |-> "filter_objects_list", input |-> <<DictOn(k1, 1), DictOn(k2, 2)>>] :
             k1 \in SUBSET ListKeys, k2 \in SUBSET ListKeys}

DetailLevels == {"compact", "full"}

InitFilter ==
    /\ IdleExtract
    /\ InitDoc
    /\ ret = NoRet
    /\ \E call \in FilterInputs, detail_level \in DetailLevels :
          args = [fn |-> call.fn, input |-> call.input, detail_level |-> detail_level]

apply_filter(fn, input, detail_level) ==
    CASE fn = "filter_object_properties" -> filter_object_properties(input, detail_level)
      [] fn = "filter_contract_response" -> filter_contract_response(input, detail_level)
      [] fn = "filter_objects_list" -> filter_objects_list(input, detail_level)

(* result = filter(input, detail_level) *)
CallFilter ==
    /\ ret = NoRet
    /\ ret' = [kind |-> "value", value |-> apply_filter(args.fn, args.input, args.detail_level)]
    /\ UNCHANGED <<args, output, built, extracted, objects, options, last, ncalls, connection>>

(* the result is filtered once more, at the same level *)
FilterAgain ==
    /\ ret.kind = "value"
    /\ ret' = [kind |-> "again", first |-> ret.value,
               value |-> apply_filter(args.fn, ret.value, args.detail_level)]
    /\ UNCHANGED <<args, output, built, extracted, objects, options, last, ncalls, connection>>

NextFilter == CallFilter \/ FilterAgain

SpecFilter == InitFilter /\ [][NextFilter]_vars

(* documents of one or two solution layers, the layers shown, hidden and   *)
(* finalized                                                               *)
LayerSolutions ==
    LET sol == [structures |-> <<Structure(I_HYPHEN, "rect", 2, 4, 0)>>,
                placements |-> <<Placement(NoId, I_HYPHEN, 3, 5, 90)>>]
    IN  {<<sol>>, <<sol, sol>>}

LayerNames == {<<>>, LayerName(1), LayerName(2), LayerName(3)}

NextLayers ==
    \/ \E sols \in LayerSolutions, res \in StepOutcomes :
          import_solutions_as_layers_steps(sols, res)
    \/ \E layer \in LayerNames, show_all \in BOOLEAN, res \in StepOutcomes :
          set_layout_visibility(layer, show_all, res)
    \/ \E layer \in LayerNames, delete_other_layers \in BOOLEAN, res \in StepOutcomes :
          finalize_selected_layout(layer, delete_other_layers, res)
    \/ \E sols \in LayerSolutions : present_layout_options(sols, FALSE)

SpecLayers == Init /\ [][NextLayers]_vars

(* one contract imported again and again into one document, each equipment *)
(* call answered or refused                                                *)
ImportContracts ==
    {<<Structure(I_UNDER, "circle", 0, 0, 2), Structure(I_HYPHEN, "rect", 2, 4, 0)>>,
     <<Structure(I_HYPHEN, "rect", 2, 4, 0), Structure(I_UNDER, "circle", 0, 0, 2)>>,
     <<Structure(I_HYPHEN, "rect", 2, 4, 0)>>}

NextImport ==
    \E structures \in ImportContracts, strict \in BOOLEAN :
        \E outcomes \in {o \in SitefitOutcomes(structures) :
                            o.boundary = Succeeded /\ o.roads = Succeeded} :
            import_sitefit_contract_steps(structures, RemotePlacements, FALSE, strict,
                                          outcomes, "Draft::Wire", <<>>)

SpecImport == Init /\ [][NextImport]_vars

(* names built from the words and prefixes of the rules, in both cases *)
MaxWords == 2

NameWords ==
    {<<"T", "K">>,
     <<"t", "k">>,
     <<"T", "a", "n", "k">>,
     <<"R", "-">>,
     <<"r", "e", "a", "c", "t", "o", "r">>,
     <<"P", "-">>,
     <<"P", "u", "m", "p">>,
     <<"c", "l", "a", "r", "i", "f", "i", "e", "r">>,
     <<"T", "h", "i", "c", "k", "e", "n", "e", "r">>,
     <<"f", "i", "l", "t", "e", "r">>,
     <<"B", "L", "-">>,
     <<"b", "l", "o", "w", "e", "r">>,
     <<"c", "o", "m", "p", "r", "e", "s", "s", "o", "r">>,
     <<"E", "-">>,
     <<"e", "x", "c", "h", "a", "n", "g", "e", "r">>,
     <<"C", "-">>,
     <<"c", "o", "l", "u", "m", "n">>,
     <<"V", "-">>,
     <<"v", "e", "s", "s", "e", "l">>,
     <<"b", "a", "s", "i", "n">>,
     <<"B", "u", "i", "l", "d", "i", "n", "g">>,
     <<"s", "u", "b", "s", "t", "a", "t", "i", "o", "n">>,
     <<"M", "C", "C">>,
     <<"r", "a", "c", "k">>,
     <<"W", "i", "d", "g", "e", "t">>,
     <<"-", "9">>,
     <<"-", "1", "0", "1">>,
     <<"2", "0", "5">>,
     <<"x">>}

RECURSIVE Flatten(_)
Flatten(ws) == IF ws = <<>> THEN <<>> ELSE Head(ws) \o Flatten(Tail(ws))

EquipmentNames == {Flatten(ws) : ws \in UNION {[1..k -> NameWords] : k \in 1..MaxWords}}

TypeIds == {"Part::Box", "Part::Cylinder"}

InitInfer ==
    /\ IdleExtract
    /\ InitDoc
    /\ ret = NoRet
    /\ \E n \in EquipmentNames, t \in TypeIds :
          args = [fn |-> "infer_equipment_type", obj_name |-> n, obj_type |-> t]

CallInfer ==
    /\ ret = NoRet
    /\ ret' = [kind |-> "value", value |-> infer_equipment_type(args.obj_name, args.obj_type)]
    /\ UNCHANGED <<args, output, built, extracted, objects, options, last, ncalls, connection>>

NextInfer == CallInfer

SpecInfer == InitInfer /\ [][NextInfer]_vars

(* bounding boxes around the 10 percent threshold, in millimeters *)
BoxExtents == {0, 54, 60, 900, 1000, 9000, 10000, 10050, 10051, 12000, 15000}
BoxOrigins == {0, 2500}

InitEnvelope ==
    /\ IdleExtract
    /\ InitDoc
    /\ ret = NoRet
    /\ \E dx \in BoxExtents, dy \in BoxExtents, o \in BoxOrigins :
          args = [fn |-> "get_envelope", dx |-> dx, dy |-> dy,
                  bbox |-> BoundBox(o, o, dx, dy, 8000)]

CallEnvelope ==
    /\ ret = NoRet
    /\ ret' = [kind |-> "value", value |-> get_envelope(args.bbox)]
    /\ UNCHANGED <<args, output, built, extracted, objects, options, last, ncalls, connection>>

NextEnvelope == CallEnvelope

SpecEnvelope == InitEnvelope /\ [][NextEnvelope]_vars

(***************************************************************************)
(* Reference reading of "brace depth, ignoring braces inside string        *)
(* literals": a three-mode lexer (outside a string, inside a string, after *)
(* a backslash inside a string) run over the whole candidate, and the      *)
(* depth as a count of the braces met outside strings.                     *)
(***************************************************************************)
LexStep(mode, ch) ==
    IF mode = "esc" THEN "str"
    ELSE IF mode = "str" THEN (IF ch = BS THEN "esc" ELSE IF ch = QT THEN "out" ELSE "str")
    ELSE (IF ch = QT THEN "str" ELSE "out")

(* Depths(c)[k]: the brace depth after the first k characters of c *)
RECURSIVE depths_from(_, _, _, _, _)
depths_from(c, k, mode, depth, acc) ==
    IF k > Len(c) THEN acc
    ELSE LET d == IF mode = "out" /\ c[k] = LB THEN depth + 1
                  ELSE IF mode = "out" /\ c[k] = RB THEN depth - 1
                  ELSE depth
         IN  depths_from(c, k + 1, LexStep(mode, c[k]), d, Append(acc, d))

Depths(c) == depths_from(c, 1, "out", 0, <<>>)

HasBrace(s) == \E n \in DOMAIN s : s[n] = LB

FirstBrace(s) == CHOOSE n \in DOMAIN s : s[n] = LB /\ \A m \in 1..(n - 1) : s[m] # LB

RefCandidate(s) == SubSeq(s, FirstBrace(s), Len(s))

(* first position of the candidate where the depth is back to zero; 0 if none *)
RefEnd(c) ==
    LET depth == Depths(c)
        zeros == {k \in 1..Len(c) : depth[k] = 0}
    IN  IF zeros = {} THEN 0 ELSE CHOOSE k \in zeros : \A m \in zeros : k <= m

Balanced(s) == HasBrace(s) /\ RefEnd(RefCandidate(s)) > 0

FirstObject(s) == SubSeq(RefCandidate(s), 1, RefEnd(RefCandidate(s)))

Done == extracted # Pending

(* C1 as stated, for an arbitrary prefix: the extractor returns obj for    *)
(* every text prefix + json.dumps(obj) + suffix.                           *)
C1_RoundTripAnyPrefix ==
    (Done /\ built.structured) => extracted = [kind |-> "value", value |-> built.obj]

(* C1 (amended): for every text prefix + json.dumps(obj) + suffix whose    *)
(* prefix contains no '{', with an arbitrary suffix and obj a mapping with *)
(* nested objects and strings holding braces, quotes and backslashes, the  *)
(* extractor returns a value equal to obj.                                 *)
C1_RoundTrip ==
    (Done /\ built.structured /\ find(built.prefix, LB) < 0)
        => extracted = [kind |-> "value", value |-> built.obj]

C1_Witness ==
    /\ Done
    /\ built.structured
    /\ built.prefix = <<QT>>
    /\ built.suffix = <<RB>>
    /\ built.obj = JObj(<< <<(<<"a">>), JStr(<<LB>>)>>,
                           <<(<<QT, RB>>), JObj(<< <<(<<"a">>), JStr(<<BS>>)>> >>)>> >>)
    /\ extracted.kind = "value"

C3_FirstObjectOnly ==
    Done =>
        /\ Balanced(output) => extracted = json_loads(FirstObject(output))
        /\ LET head == built.prefix \o built.body
           IN  Balanced(head) => extracted = _extract_json_from_output(head)

C3_Witness ==
    /\ Done
    /\ built.structured
    /\ built.prefix = <<"a">>
    /\ built.suffix = <<LB, RB>>
    /\ built.obj = JObj(<< <<(<<"a">>), JStr(<<RB>>)>> >>)
    /\ extracted = [kind |-> "value", value |-> built.obj]

(***************************************************************************)
(* Geometry of a box in the document, with the convention the scripts      *)
(* state: Width along X, Length along Y, the placement rotating the box    *)
(* about its corner (Placement.Base).                                      *)
(***************************************************************************)
SetMax(S) == CHOOSE m \in S : \A n \in S : n <= m
SetMin(S) == CHOOSE m \in S : \A n \in S : m <= n

HalfExtents(o) == <<o.Width \div 2, o.Length \div 2, 0>>

(* the geometric center: the corner plus the rotated half extents *)
WorldCenter(o) == VecAdd(o.Base, multVec(o.Angle, HalfExtents(o)))

WorldCorners(o) ==
    {VecAdd(o.Base, multVec(o.Angle, <<a, b, 0>>)) : a \in {0, o.Width}, b \in {0, o.Length}}

XExtent(o) ==
    SetMax({c[1] : c \in WorldCorners(o)}) - SetMin({c[1] : c \in WorldCorners(o)})
YExtent(o) ==
    SetMax({c[2] : c \in WorldCorners(o)}) - SetMin({c[2] : c \in WorldCorners(o)})

(* swap(w, l, r) of the contract, in millimeters *)
SwapMM(fp, r) ==
    IF r = 90 \/ r = 270 THEN <<fp[2] * 1000, fp[1] * 1000>> ELSE <<fp[1] * 1000, fp[2] * 1000>>

Boxes(objs) == {objs[i] : i \in {j \in DOMAIN objs : objs[j].TypeId = "Part::Box"}}

AllBoxes == Boxes(objects) \cup UNION {Boxes(options[d]) : d \in DOMAIN options}

PlacedBy(o) == o.req.by \in {"apply_placements", "import_sitefit_contract"}

(* C4: every tool that creates a box stores (h, w) when the rotation_deg   *)
(* it read is 90 or 270 and (w, h) for every other value; the pre-swap     *)
(* written in the multi-document branch of present_layout_options follows  *)
(* the same rule.                                                          *)
C4_SwapRule ==
    /\ \A o \in AllBoxes : <<o.Width, o.Length>> = SwapMM(o.fp, o.rot_in)
    /\ \A fp \in RectFootprints, r \in AnyRotations :
          LET dims == option_dims(fp[1], fp[2], r)
          IN  <<dims[1] * M_TO_MM, dims[2] * M_TO_MM>> = SwapMM(fp, r)

C4_Witness ==
    /\ \E o \in Boxes(objects) :
          /\ o.made_by = "import_sitefit_contract"
          /\ o.rot_in = 270
          /\ <<o.Width, o.Length>> = <<4000, 2000>>
    /\ \E o \in AllBoxes :
          /\ o.made_by = "import_solutions_as_layers"
          /\ o.rot_in = 450
          /\ <<o.Width, o.Length>> = <<2000, 4000>>

(* C5: for a box placed at center (Cx, Cy) with a quarter-turn rotation by *)
(* apply_placements or by the placement step of import_sitefit_contract,   *)
(* the written corner plus the half extents turned by the written rotation *)
(* is (1000 Cx, 1000 Cy).                                                  *)
C5_CenterRoundTrip ==
    \A o \in Boxes(objects) :
        (PlacedBy(o) /\ o.req.rotation_deg \in QuarterTurns)
            => /\ WorldCenter(o)[1] = 1000 * o.req.x
               /\ WorldCenter(o)[2] = 1000 * o.req.y

C5_Witness ==
    \E o \in Boxes(objects) :
        /\ o.req = [by |-> "import_sitefit_contract", x |-> 3, y |-> 5, rotation_deg |-> 90]
        /\ o.Angle = 90
        /\ o.Width # o.Length
        /\ WorldCenter(o) = <<3000, 5000, 0>>

(* the base and rotation of section 4.4: center_world - Rz(R) * (half      *)
(* width, half length, 0), rotation R                                      *)
RotatedCornerRule(o) ==
    /\ o.Base = VecSub(<<1000 * o.req.x, 1000 * o.req.y, o.Base[3]>>,
                       multVec(o.req.rotation_deg, HalfExtents(o)))
    /\ o.Angle = Turn(o.req.rotation_deg)

(* C6 as stated: the rule holds for both tools *)
C6_RotatedCornerBothTools ==
    \A o \in Boxes(objects) : PlacedBy(o) => RotatedCornerRule(o)

(* C6 (amended): the placement step of import_sitefit_contract writes the  *)
(* base center_world - Rz(R) * (half_width, half_length, 0) and rotation   *)
(* R; apply_placements writes the base center_world - (half_width,         *)
(* half_length, 0) and the identity rotation.                              *)
C6_PlacementBase ==
    \A o \in Boxes(objects) :
        /\ o.req.by = "import_sitefit_contract" => RotatedCornerRule(o)
        /\ o.req.by = "apply_placements"
              => /\ o.Base = VecSub(<<1000 * o.req.x, 1000 * o.req.y, o.Base[3]>>,
                                    HalfExtents(o))
                 /\ o.Angle = 0

C6_Witness ==
    /\ \E o \in Boxes(objects) :
          /\ o.req = [by |-> "apply_placements", x |-> 3, y |-> 5, rotation_deg |-> 90]
          /\ o.Base = <<2000, 3000, 0>>
          /\ o.Angle = 0
    /\ \E o \in Boxes(objects) :
          /\ o.req = [by |-> "import_sitefit_contract", x |-> 3, y |-> 5,
                      rotation_deg |-> 90]
          /\ o.Angle = 90

(* C7: a box created and placed by import_sitefit_contract with a quarter  *)
(* turn r has no native rotation, and its axis-aligned footprint is        *)
(* centered at (x, y) with extents swap(w, h, r).                          *)
C7_ImportedFootprint ==
    \A o \in Boxes(objects) :
        (/\ o.made_by = "import_sitefit_contract"
         /\ o.req.by = "import_sitefit_contract"
         /\ o.req.rotation_deg = o.rot_in
         /\ o.rot_in \in QuarterTurns)
            => /\ o.Angle = 0
               /\ <<XExtent(o), YExtent(o)>> = SwapMM(o.fp, o.req.rotation_deg)
               /\ WorldCenter(o)[1] = 1000 * o.req.x
               /\ WorldCenter(o)[2] = 1000 * o.req.y

(* the rotation in force: of the last placement applied, else of creation *)
RotationInForce(o) == IF o.req.by = "none" THEN o.rot_in ELSE o.req.rotation_deg

(* C8: every box's stored (Width, Length) is swap(w, l, r) for the         *)
(* rotation r in force.                                                    *)
C8_StoredDimensions ==
    \A o \in Boxes(objects) : <<o.Width, o.Length>> = SwapMM(o.fp, RotationInForce(o))

(***************************************************************************)
(* Batches of placements: what one call reports and changes, read against  *)
(* the document it leaves (placing never changes a Name, a Label or an     *)
(* EquipmentId, so an entry resolves in the document after the call as it  *)
(* did when the loop reached it).                                          *)
(***************************************************************************)
Target(objs, p) ==
    IF placement_obj_id(p) = NoId THEN 0 ELSE find_equipment_by_id(objs, placement_obj_id(p))

ErrorOf(p) ==
    IF placement_obj_id(p) = NoId
    THEN [kind |-> "missing_id", id |-> NoId]
    ELSE [kind |-> "not_found", id |-> placement_obj_id(p)]

UpdatedCount(r) == IF r.tool = "apply_placements" THEN Len(r.updated) ELSE r.updated

BatchRan(r) ==
    \/ r.tool = "apply_placements" /\ r.status = "applied"
    \/ r.tool = "import_sitefit_contract" /\ r.status = "placed"

(* C9: a batch processes every entry in order: an entry that resolves is   *)
(* applied and counted as updated, an entry without an id or with an id    *)
(* that resolves to nothing adds exactly one error and changes no object,  *)
(* so updated plus errors is the number of placements, whatever the        *)
(* position of the failing entries.                                        *)
C9_BatchPolicy ==
    [][BatchRan(last') =>
        LET ps == last'.placements
            Resolved(p) == Target(objects', p) # 0
            Failed(p) == Target(objects', p) = 0
            applied == SelectSeq(ps, Resolved)
            failed == SelectSeq(ps, Failed)
        IN  /\ UpdatedCount(last') + Len(last'.errors) = Len(ps)
            /\ UpdatedCount(last') = Len(applied)
            /\ last'.tool = "apply_placements"
                  => last'.updated = [n \in 1..Len(applied) |-> placement_obj_id(applied[n])]
            /\ last'.errors = [n \in 1..Len(failed) |-> ErrorOf(failed[n])]
            /\ \A i \in DOMAIN objects' :
                  LET hits == {n \in DOMAIN ps : Target(objects', ps[n]) = i}
                      p == ps[SetMax(hits)]
                  IN  IF hits # {}
                      THEN /\ objects'[i].req = [by |-> last'.tool, x |-> p.x, y |-> p.y,
                                                 rotation_deg |-> p.rotation_deg]
                           /\ WorldCenter(objects'[i])[1] = 1000 * p.x
                           /\ WorldCenter(objects'[i])[2] = 1000 * p.y
                      ELSE IF i \in DOMAIN objects
                      THEN objects'[i] = objects[i]
                      ELSE objects'[i].req = NoReq
    ]_vars

C9_Witness ==
    /\ last.tool = "apply_placements"
    /\ Len(last.placements) = 3
    /\ Target(objects, last.placements[1]) # 0
    /\ placement_obj_id(last.placements[2]) # NoId
    /\ Target(objects, last.placements[2]) = 0
    /\ Target(objects, last.placements[3]) # 0
    /\ Len(last.updated) = 2
    /\ Len(last.errors) = 1

(* C10: find_equipment_by_id returns the object whose EquipmentId is the   *)
(* id if there is one, whatever Names and Labels match; otherwise the      *)
(* object whose Name is the id with '-' replaced by '_'; otherwise the     *)
(* object with that Label if exactly one object has it; otherwise nothing. *)
C10_ResolutionOrder ==
    \A id \in Ids :
        LET r == find_equipment_by_id(objects, id)
            with_id == {i \in DOMAIN objects : objects[i].EquipmentId = id}
            with_name == {i \in DOMAIN objects : objects[i].Name = replace_hyphens(id)}
            with_label == {i \in DOMAIN objects : objects[i].Label = id}
        IN  IF with_id # {} THEN r = SetMin(with_id)
            ELSE IF with_name # {} THEN r \in with_name
            ELSE IF Cardinality(with_label) = 1 THEN r \in with_label
            ELSE r = 0

C10_Witness ==
    \E i, j \in DOMAIN objects :
        /\ objects[i].Name = replace_hyphens(I_HYPHEN)
        /\ objects[i].EquipmentId = NoId
        /\ objects[j].EquipmentId = I_HYPHEN
        /\ i < j
        /\ find_equipment_by_id(objects, I_HYPHEN) = j
        /\ objects[j].req.by = "import_sitefit_contract"
        /\ objects[i].req.by = "none"

(* C11: apply_placements writes a non-box object at (1000 x, 1000 y) with *)
(* the elevation it had and the rotation rotation_deg; apply_placements    *)
(* and the placement step of import_sitefit_contract leave the elevation   *)
(* of every object as it was, and leave every object no placement names    *)
(* as it was.                                                              *)
C11_PlacementFrame ==
    [][BatchRan(last') =>
        \A i \in DOMAIN objects' :
            LET ps == last'.placements
                hits == {n \in DOMAIN ps : Target(objects', ps[n]) = i}
                p == ps[SetMax(hits)]
                z_before == IF i \in DOMAIN objects THEN objects[i].Base[3] ELSE 0
            IN  /\ objects'[i].Base[3] = z_before
                /\ (hits = {} /\ i \in DOMAIN objects) => objects'[i] = objects[i]
                /\ (/\ hits # {}
                    /\ last'.tool = "apply_placements"
                    /\ objects'[i].TypeId # "Part::Box")
                      => /\ objects'[i].Base = <<1000 * p.x, 1000 * p.y, z_before>>
                         /\ objects'[i].Angle = Turn(p.rotation_deg)
    ]_vars

C11_Witness ==
    /\ last.tool = "apply_placements"
    /\ \E i, j \in DOMAIN objects :
          /\ objects[i].TypeId = "Part::Cylinder"
          /\ objects[i].req.by = "apply_placements"
          /\ objects[i].Base = <<3000, 5000, 500>>
          /\ objects[i].Angle = 90
          /\ objects[j].TypeId = "Part::Box"
          /\ objects[j].req.by = "import_sitefit_contract"

(***************************************************************************)
(* The rule table of section "equipment type inference": a keyword to find *)
(* anywhere in the lower-cased name, a prefix where the rule has one, and  *)
(* the category.                                                           *)
(***************************************************************************)
NoPrefix == <<>>

TypeRules ==
    <<[keyword |-> <<"t", "a", "n", "k">>, prefix |-> <<"t", "k">>, category |-> "storage_tank"],
      [keyword |-> <<"r", "e", "a", "c", "t", "o", "r">>, prefix |-> <<"r", "-">>, category |-> "reactor"],
      [keyword |-> <<"p", "u", "m", "p">>, prefix |-> <<"p", "-">>, category |-> "pump"],
      [keyword |-> <<"c", "l", "a", "r", "i", "f", "i", "e", "r">>, prefix |-> NoPrefix, category |-> "clarifier"],
      [keyword |-> <<"t", "h", "i", "c", "k", "e", "n", "e", "r">>, prefix |-> NoPrefix, category |-> "thickener"],
      [keyword |-> <<"f", "i", "l", "t", "e", "r">>, prefix |-> NoPrefix, category |-> "filter"],
      [keyword |-> <<"b", "l", "o", "w", "e", "r">>, prefix |-> <<"b", "l", "-">>, category |-> "blower"],
      [keyword |-> <<"c", "o", "m", "p", "r", "e", "s", "s", "o", "r">>, prefix |-> NoPrefix, category |-> "compressor"],
      [keyword |-> <<"e", "x", "c", "h", "a", "n", "g", "e", "r">>, prefix |-> <<"e", "-">>, category |-> "heat_exchanger"],
      [keyword |-> <<"c", "o", "l", "u", "m", "n">>, prefix |-> <<"c", "-">>, category |-> "column"],
      [keyword |-> <<"v", "e", "s", "s", "e", "l">>, prefix |-> <<"v", "-">>, category |-> "vessel"],
      [keyword |-> <<"b", "a", "s", "i", "n">>, prefix |-> NoPrefix, category |-> "basin"],
      [keyword |-> <<"b", "u", "i", "l", "d", "i", "n", "g">>, prefix |-> NoPrefix, category |-> "building"],
      [keyword |-> <<"s", "u", "b", "s", "t", "a", "t", "i", "o", "n">>, prefix |-> NoPrefix, category |-> "substation"],
      [keyword |-> <<"m", "c", "c">>, prefix |-> NoPrefix, category |-> "mcc"],
      [keyword |-> <<"r", "a", "c", "k">>, prefix |-> NoPrefix, category |-> "pipe_rack"]>>

RuleMatches(k, name) ==
    \/ contains(lower(name), TypeRules[k].keyword)
    \/ TypeRules[k].prefix # NoPrefix /\ startswith(lower(name), TypeRules[k].prefix)

FirstMatch(name) ==
    LET hits == {k \in DOMAIN TypeRules : RuleMatches(k, name)}
    IN  IF hits = {} THEN "other" ELSE TypeRules[SetMin(hits)].category

Inferred == args.fn = "infer_equipment_type" /\ ret # NoRet

Enveloped == args.fn = "get_envelope" /\ ret # NoRet

(* the larger of two integers, and the distance between them *)
IntMax(a, b) == IF a < b THEN b ELSE a
IntDist(a, b) == IF a < b THEN b - a ELSE a - b

(* C13: a bounding box of X-extent width and Y-extent length is a circle   *)
(* exactly when |width - length| < 0.1 * max(width, length), with diameter *)
(* (width + length) / 2, and otherwise a rectangle reporting width and     *)
(* length; a difference of exactly 10 percent of the larger side, and a    *)
(* zero-size footprint, are rectangles.  Extents are in millimeters, the   *)
(* reported lengths the floats of the extents in meters.                   *)
C13_EnvelopeShape ==
    Enveloped =>
        LET env == ret.value.envelope
        IN  IF 10 * IntDist(args.dx, args.dy) < IntMax(args.dx, args.dy)
            THEN /\ env.shape = "circle"
                 /\ env.diameter = DFromDecimal(5 * (args.dx + args.dy), 4)
            ELSE /\ env.shape = "rectangle"
                 /\ env.width = DFromDecimal(args.dx, 3)
                 /\ env.length = DFromDecimal(args.dy, 3)

(***************************************************************************)
(* The two keys of a placement, read against the contract whose            *)
(* placements carry the key "id" only.                                     *)
(***************************************************************************)
(* the placement with its equipment named by "id" alone *)
KeyedById(p) == [p EXCEPT !.id = placement_obj_id(p), !.structure_id = NoId]

AllKeyedById(ps) == [n \in DOMAIN ps |-> KeyedById(ps[n])]

(* the structures a first import created the document's objects from *)
StructuresOf(objs) ==
    [i \in DOMAIN objs |->
        IF objs[i].TypeId = "Part::Cylinder"
        THEN Structure(objs[i].EquipmentId, "circle", 0, 0, objs[i].fp[1])
        ELSE Structure(objs[i].EquipmentId, "rect", objs[i].fp[1], objs[i].fp[2], 0)]

(* the document import_sitefit_contract builds in an empty document *)
ImportedDocument(structures, placements_data) ==
    LET created == sitefit_equipment_loop(<<>>, structures, placements_data)
    IN  IF placements_data = <<>> THEN created
        ELSE sitefit_loop([objs |-> created, updated |-> 0, errors |-> <<>>],
                          placements_data).objs

(* what the document holds of an object *)
Native(o) ==
    [Name |-> o.Name, Label |-> o.Label, TypeId |-> o.TypeId, Width |-> o.Width,
     Length |-> o.Length, Base |-> o.Base, Angle |-> o.Angle]

FirstImport == ncalls = 1 /\ last.tool = "import_sitefit_contract"

(* C20: "structure_id" is an alias of "id": the document a first import    *)
(* builds (box dimensions, bases, rotations) is the document built from    *)
(* the same contract with every placement keyed by "id", the value of      *)
(* "id" being used when both keys are present.                             *)
C20_StructureIdAlias ==
    FirstImport =>
        LET keyed == ImportedDocument(StructuresOf(objects), AllKeyedById(last.placements))
        IN  /\ Len(keyed) = Len(objects)
            /\ \A i \in DOMAIN objects : Native(keyed[i]) = Native(objects[i])

(***************************************************************************)
(* Exports, read against the document the tools built: an object is known  *)
(* to the caller by the name it was created under, which the tools keep as *)
(* its label.                                                              *)
(***************************************************************************)
(* the last call was an export: ret holds the contract of this document *)
Exported == last.tool = "export_contract_json" /\ ret.kind = "contract"

GivenName(o) == o.Label

AnnotationTypes == {"Draft::Wire", "Draft::Dimension", "Draft::Text", "Draft::Label"}

(* the objects the export is to list, for a reading name(o) of "name" *)
Listed(o, name(_)) ==
    /\ ~(args.boundary_object # StrNone /\ name(o) = args.boundary_object)
    /\ has_shape(o)
    /\ args.equipment_prefix # <<>> => startswith(name(o), args.equipment_prefix)
    /\ o.TypeId \notin AnnotationTypes

ExportedIds == [n \in DOMAIN ret.value.equipment |-> ret.value.equipment[n].id]

(* C14: the equipment array holds exactly one entry, in document order and *)
(* with id equal to the object's name, for each object that is not the     *)
(* designated boundary object, has geometry, has a name starting with      *)
(* equipment_prefix when one is supplied and is not an annotation; with    *)
(* prefix "TK-" on a document holding TK-101 and P-50, only TK-101.        *)
C14_ExportFilter ==
    Exported =>
        LET listed(o) == Listed(o, GivenName)
            wanted == SelectSeq(objects, listed)
        IN  ExportedIds = [n \in DOMAIN wanted |-> GivenName(wanted[n])]

(* the entries of a contract section that carry a position for equipment id *)
PositionsIn(section, id) ==
    {section[n] : n \in {k \in DOMAIN section :
                            /\ {"id", "x", "y", "rotation_deg"} \subseteq DOMAIN section[k]
                            /\ section[k].id = id}}

(* C15: for each exported equipment object the contract reports its        *)
(* position x, y in meters and its rotation_deg, read from the object's    *)
(* placement: the angle in degrees about the vertical axis.                *)
C15_PlacementReported ==
    Exported =>
        \A n \in DOMAIN ret.value.equipment :
            LET id == ret.value.equipment[n].id
                read == read_placement(objects[getObject(objects, id)])
            IN  \E p \in PositionsIn(ret.value.equipment, id)
                         \cup PositionsIn(ret.value.placements, id) :
                    /\ p.x = read.pos_x
                    /\ p.y = read.pos_y
                    /\ p.rotation_deg = read.rotation_deg

(* C19: metadata.hash of an export is "sha256:" and the first 16 hex       *)
(* digits of SHA-256 over the sorted-key encoding of the contract's final  *)
(* equipment array, and two successive exports with equal equipment arrays *)
(* carry equal hashes whatever their project name, boundary, source file   *)
(* and creation time.                                                      *)
C19_HashOfEquipment ==
    [][/\ (last'.tool = "export_contract_json" /\ ret'.kind = "contract") =>
              ret'.value.metadata.hash =
                  [prefix |-> "sha256:", hexdigits |-> 16,
                   digest_of |-> ret'.value.equipment]
       /\ (/\ ret.kind = "contract"
           /\ ret'.kind = "contract"
           /\ ret.value.equipment = ret'.value.equipment) =>
              ret.value.metadata.hash = ret'.value.metadata.hash]_vars

C19_Witness ==
    /\ Exported
    /\ Len(ret.value.equipment) = 1
    /\ args.project_name = "plant-b"
    /\ args.boundary_object = WireName
    /\ ret.value.site.boundary # <<>>
    /\ ret.value.metadata.source_file # DocName
    /\ ret.value.metadata.hash.digest_of = ret.value.equipment

(***************************************************************************)
(* Responses to remote failure, read against the outcomes of the calls.    *)
(***************************************************************************)
FailureMessages ==
    {"Failed to extract contract: ", "Failed to apply placements: ", "Failed to export: ",
     "Failed to create envelope: ", "Failed to create boundary: "}

Range(s) == {s[n] : n \in DOMAIN s}

(* C16: when the one execute_code call of a single-call tool returns a     *)
(* non-success result with error E, the tool returns a single failure      *)
(* message that contains E verbatim, reports no success, changes nothing   *)
(* and has sent its payload once, without retry.                           *)
C16_SingleCallFailure ==
    [][(last'.tool \in SingleCallTools /\ last'.status = "failed") =>
          /\ Len(ret'.text) = 1
          /\ ret'.text[1][1] \in FailureMessages
          /\ args'.outcomes.call.error \in Range(ret'.text[1])
          /\ ret'.sent = <<last'.tool>>
          /\ objects' = objects]_vars

C16_Witness ==
    /\ last.tool = "create_equipment_envelope"
    /\ last.status = "failed"
    /\ args.outcomes.call = Refused("timeout")
    /\ ret.text = << <<"Failed to create envelope: ", "timeout">> >>
    /\ Len(objects) = 1

(* the steps of the last call that did not succeed, and their errors *)
MultiStepTools ==
    {"import_sitefit_contract", "import_solutions_as_layers", "set_layout_visibility"}

StepsRun ==
    IF args.fn # "import_sitefit_contract" THEN {"call"}
    ELSE {n \in 1..Len(ret.sent) : ret.sent[n] \in {"doc_check", "boundary_code",
                                                    "equip_code", "placement_code"}}

OutcomeOf(step) ==
    IF args.fn # "import_sitefit_contract" THEN args.outcomes.call
    ELSE IF ret.sent[step] = "doc_check" THEN args.outcomes.document
    ELSE IF ret.sent[step] = "boundary_code" THEN args.outcomes.boundary
    ELSE IF ret.sent[step] = "placement_code" THEN args.outcomes.placement
    ELSE args.outcomes.equipment[Cardinality({m \in 1..step : ret.sent[m] = "equip_code"})]

Mentioned(e) == \E n \in DOMAIN ret.text : e \in Range(ret.text[n])

(* C17: whenever a step of a multi-step tool returns a non-success result  *)
(* the response reports that failure, and no layer is reported created or  *)
(* visible, and no step done, when its call failed.                        *)
C17_StepFailureReported ==
    (last.tool \in MultiStepTools /\ last.status = "returned") =>
        \A step \in StepsRun :
            ~OutcomeOf(step).success => Mentioned(OutcomeOf(step).error)

(***************************************************************************)
(* The unit conversions, read against the decimal lengths of the contract. *)
(***************************************************************************)
ReadBack == args.fn = "convert" /\ ret.kind = "meters"

(* 2^-52, the spacing of the floats at 1 *)
Epsilon == [neg |-> FALSE, m |-> <<1>>, e |-> -52]

BoundariesNamed(boundary_name) ==
    {n \in DOMAIN objects : /\ objects[n].made_by = "create_site_boundary"
                            /\ objects[n].Label = boundary_name}

(* boundary_points of the call that drew the wire, in meters *)
BoundaryPoints(wire) ==
    << <<DFromInt(0), DFromInt(0)>>, <<DFromInt(wire.fp[1]), DFromInt(0)>>,
       <<DFromInt(wire.fp[1]), DFromInt(wire.fp[2])>>,
       <<DFromInt(0), DFromInt(wire.fp[2])>> >>

(* C21: after create_site_boundary(boundary_points = P, boundary_name = N) *)
(* the export with boundary_object = N returns site.boundary equal to P,   *)
(* in meters and in the same order, and does not list the boundary object  *)
(* among the equipment.                                                    *)
C21_BoundaryRoundTrip ==
    Exported =>
        \A n \in BoundariesNamed(args.boundary_object) :
            /\ ret.value.site.boundary = BoundaryPoints(objects[n])
            /\ \A k \in DOMAIN ExportedIds : ExportedIds[k] # objects[n].Name

(***************************************************************************)
(* import_sitefit_contract in strict mode and out of it, read on the calls *)
(* it sent and the text it returned.                                       *)
(***************************************************************************)
(* the last call was an import that found or created its document *)
SitefitRan ==
    /\ last.tool = "import_sitefit_contract"
    /\ args.fn = "import_sitefit_contract"
    /\ res_get(args.outcomes.document, "success", TRUE)

(* the structures whose creation step failed, by position *)
FailedEquipment ==
    {k \in DOMAIN args.structures : ~res_get(args.outcomes.equipment[k], "success", FALSE)}

SentCount(payload) == Cardinality({n \in DOMAIN ret.sent : ret.sent[n] = payload})

ErrorLine(k) ==
    <<"    - ", "Failed to create ">> \o args.structures[k].id
    \o <<": ", args.outcomes.equipment[k].error>>

(* C22: with strict the tool returns right after the first equipment step  *)
(* that fails, naming the failed id, and sends no later equipment,         *)
(* placement, road or view call; without strict every structure is         *)
(* attempted, each failure is in the error list, and the placement and     *)
(* road steps still run.                                                   *)
C22_StrictMode ==
    SitefitRan =>
        /\ (args.strict /\ FailedEquipment # {}) =>
               LET k == SetMin(FailedEquipment)
               IN  /\ SentCount("equip_code") = k
                   /\ ret.sent[Len(ret.sent)] = "equip_code"
                   /\ \A n \in DOMAIN ret.sent :
                          ret.sent[n] \in {"doc_check", "boundary_code", "equip_code"}
                   /\ <<"  Failed: ">> \o args.structures[k].id \in Range(ret.text)
        /\ (~args.strict \/ FailedEquipment = {}) =>
               /\ SentCount("equip_code") = Len(args.structures)
               /\ \A k \in FailedEquipment : ErrorLine(k) \in Range(ret.text)
               /\ args.placements_data # <<>> => SentCount("placement_code") = 1
               /\ SentCount("group_code") = (IF args.segments # <<>> THEN 1 ELSE 0)
               /\ SentCount("road_code") = Len(args.segments)
               /\ SentCount("view_code") = 1

C22_Witness ==
    /\ SitefitRan
    /\ args.strict
    /\ Len(args.structures) = 2
    /\ FailedEquipment = {1}
    /\ args.segments # <<>>
    /\ SentCount("equip_code") = 1
    /\ SentCount("road_code") = 0

C22_WitnessLenient ==
    /\ SitefitRan
    /\ ~args.strict
    /\ FailedEquipment = {1, 2}
    /\ args.segments # <<>>
    /\ SentCount("road_code") = 1
    /\ SentCount("placement_code") = 1

(***************************************************************************)
(* apply_placements on the arguments it is given.                          *)
(***************************************************************************)
ValidationMessages ==
    {<< <<"Either contract_json or contract_path must be provided">> >>,
     << <<"No placements found in contract">> >>}

(* neither contract_json nor contract_path is provided *)
NothingProvided(a) == a.contract_json = PyNone /\ a.contract_path = PyNone

(* the contract the call loads has a missing or empty placements list *)
NoPlacements(a) ==
    LET given == IF a.contract_path # PyNone THEN a.contract_path ELSE a.contract_json
    IN  /\ given # PyNone
        /\ given.type = "path" => given.exists
        /\ given.type = "str" => given.text = "contract"
        /\ "placements" \notin given.keys \/ given.placements = <<>>

(* the call answers with one of the two messages, having sent nothing to   *)
(* FreeCAD and left the document as it was                                 *)
Rejected ==
    /\ ret'.kind = "response"
    /\ ret'.text \in ValidationMessages
    /\ NothingProvided(args') =>
           ret'.text = << <<"Either contract_json or contract_path must be provided">> >>
    /\ ret'.sent = <<>>
    /\ objects' = objects

ApplyCalled == args'.fn = "apply_placements" /\ ncalls' = ncalls + 1

Filtered == args.fn \in {"filter_object_properties", "filter_contract_response",
                         "filter_objects_list"} /\ ret.kind \in {"value", "again"}

KeptObjectKeys == {"Name", "Label", "TypeId", "Placement", "Shape", "success", "error",
                   "message"}

(* the entries of d under the keys of K, values as they are *)
Restrict(d, K) == [key \in DOMAIN d \cap K |-> d[key]]

(* C24: with "full" every filter returns its input; with "compact"         *)
(* filter_contract_response returns the input's entries but metadata,      *)
(* debug_info and timing, values unchanged, filter_object_properties the   *)
(* entries under Name, Label, TypeId, Placement, Shape, success, error and *)
(* message that the input has, filter_objects_list a list of the same      *)
(* length and order; the input is left as it was and filtering the result  *)
(* again returns the result.                                               *)
C24_DetailFiltering ==
    [][(Filtered' /\ ret' # ret) =>
          /\ args' = args
          /\ args.detail_level = "full" => ret'.value = args.input
          /\ (args.detail_level = "compact" /\ ret'.kind = "value") =>
                CASE args.fn = "filter_contract_response" ->
                         ret'.value = Restrict(args.input,
                                               DOMAIN args.input
                                               \ {"metadata", "debug_info", "timing"})
                  [] args.fn = "filter_object_properties" ->
                         ret'.value = Restrict(args.input, KeptObjectKeys)
                  [] args.fn = "filter_objects_list" ->
                         /\ Len(ret'.value) = Len(args.input)
                         /\ \A n \in DOMAIN args.input :
                                \A key \in DOMAIN args.input[n] \cap DOMAIN ret'.value[n] :
                                    ret'.value[n][key] = args.input[n][key]
          /\ ret'.kind = "again" => ret'.value = ret'.first]_vars

C24_Witness ==
    /\ Filtered
    /\ ret.kind = "again"
    /\ args.fn = "filter_object_properties"
    /\ args.detail_level = "compact"
    /\ DOMAIN args.input = ObjectKeys
    /\ DOMAIN ret.value = {"Name", "Label", "Shape", "success"}

(* the solution layers of a document: its top-level groups other than the  *)
(* Common one; the equipment of a layer: what is in it, at any depth       *)
SolutionLayers(objs) ==
    {n \in DOMAIN objs : /\ objs[n].TypeId = "App::DocumentObjectGroup"
                         /\ objs[n].InGroup = <<>>
                         /\ objs[n].Label # CommonName}

EquipmentOf(objs, n) == members_of(objs, {objs[n].Name}, 2)

Shown(objs, n) ==
    /\ objs[n].Visibility
    /\ \A m \in EquipmentOf(objs, n) : objs[m].Visibility

ToggleRan ==
    /\ last'.tool = "set_layout_visibility"
    /\ args'.outcomes.call = Succeeded

(* C25: when the script of set_layout_visibility has run, with show_all    *)
(* every solution layer and its equipment is visible; otherwise, with      *)
(* visible_layer = L, layer L and its equipment are visible and every      *)
(* other solution layer is hidden; with neither, every solution layer is   *)
(* hidden; and the visibility of the Common layer is what it was.          *)
C25_LayerVisibility ==
    [][ToggleRan =>
          /\ \A n \in SolutionLayers(objects') :
                IF args'.show_all \/ (args'.visible_layer # <<>>
                                      /\ objects'[n].Name = args'.visible_layer)
                THEN Shown(objects', n)
                ELSE ~objects'[n].Visibility
          /\ \A n \in DOMAIN objects :
                objects[n].Label = CommonName
                    => objects'[n].Visibility = objects[n].Visibility]_vars

(* the parts of C25 other than the equipment of the layer shown *)
C25_LayersThemselves ==
    [][ToggleRan =>
          /\ \A n \in SolutionLayers(objects') :
                objects'[n].Visibility
                    = (args'.show_all \/ (args'.visible_layer # <<>>
                                          /\ objects'[n].Name = args'.visible_layer))
          /\ args'.show_all => \A n \in SolutionLayers(objects') : Shown(objects', n)
          /\ \A n \in DOMAIN objects :
                objects[n].Label = CommonName
                    => objects'[n].Visibility = objects[n].Visibility]_vars

(* C28: no tool call ends in the AttributeError of a method that class     *)
(* FreeCADConnection does not provide, and no call of                      *)
(* finalize_selected_layout or of                                          *)
(* present_layout_options(use_single_document = False) ends in an          *)
(* unhandled error: each passes its connection check.                      *)
C28_MethodsProvided ==
    /\ \A method \in invoked_methods : last.errors # <<AttributeError(method)>>
    /\ last.tool \in {"finalize_selected_layout", "present_layout_options"}
          => last.status # "raised"

Names(objs, ns) == {objs[n].Name : n \in ns}

(* a call of finalize_selected_layout that names a layer of the document,  *)
(* FreeCAD answering every script                                          *)
FinalizeCalled ==
    /\ last'.tool = "finalize_selected_layout"
    /\ args'.outcomes.call = Succeeded
    /\ \E n \in SolutionLayers(objects) : objects[n].Label = args'.layer_name

OtherLayers(objs, layer_name) == {n \in SolutionLayers(objs) : objs[n].Label # layer_name}

WithContents(objs, ns) == ns \cup UNION {EquipmentOf(objs, n) : n \in ns}

(* C26: finalize_selected_layout(layer_name = L) with delete_other_layers  *)
(* leaves in the document exactly what was there less every other layout   *)
(* layer, its equipment group and the equipment in it; without             *)
(* delete_other_layers it removes nothing and every other layout layer is  *)
(* hidden.                                                                 *)
C26_FinalizeLayers ==
    [][FinalizeCalled =>
          LET others == OtherLayers(objects, args'.layer_name)
          IN  IF args'.delete_other_layers
              THEN Names(objects', DOMAIN objects')
                     = Names(objects, DOMAIN objects \ WithContents(objects, others))
              ELSE /\ Names(objects', DOMAIN objects') = Names(objects, DOMAIN objects)
                   /\ \A n \in others : ~objects'[n].Visibility]_vars

(* the layers of objs that the layer script, leaving after, has deleted or *)
(* has hidden                                                              *)
LayersLost(objs, after) ==
    {n \in SolutionLayers(objs) :
        \/ objs[n].Name \notin Names(after, DOMAIN after)
        \/ objs[n].Visibility /\ ~after[getObject(after, objs[n].Name)].Visibility}

PingsOf(c, k) == {i \in DOMAIN c.pings : c.pings[i].conn = k}

(* the handle is one whose ping succeeded; every connection built was      *)
(* pinged once and only at its creation; none is disconnected twice, and   *)
(* the one held is not disconnected                                        *)
HandleInv ==
    /\ connection.handle # NoConnection
          => \E i \in PingsOf(connection, connection.handle) :
                connection.pings[i].answer = "true"
    /\ \A k \in 1..connection.constructed : Cardinality(PingsOf(connection, k)) = 1
    /\ \A i, j \in DOMAIN connection.disconnects :
          connection.disconnects[i] = connection.disconnects[j] => i = j
    /\ \A i \in DOMAIN connection.disconnects :
          connection.disconnects[i] # connection.handle

(* with a handle, a step keeps it and pings nothing, or is the shutdown    *)
(* that disconnects it once and clears it; without one, a step that asks   *)
(* for the connection builds a new one and pings it, holds it exactly when *)
(* the ping answered true, and raises otherwise                            *)
HandleStep ==
    IF connection.handle # NoConnection
    THEN \/ connection' = connection
         \/ connection' = [connection EXCEPT !.handle = NoConnection,
                                             !.disconnects = Append(@, connection.handle)]
    ELSE \/ connection' = connection /\ ncalls' = ncalls
         \/ /\ connection'.constructed = connection.constructed + 1
            /\ connection'.disconnects = connection.disconnects
            /\ \E answer \in PingAnswers :
                  /\ connection'.pings
                       = Append(connection.pings,
                                [conn |-> connection'.constructed, answer |-> answer])
                  /\ connection'.handle = IF answer = "true" THEN connection'.constructed
                                          ELSE NoConnection
                  /\ ncalls' # ncalls => (last'.status = "raised" <=> answer # "true")

(* C27: the handle is non-empty only if the ping made when it was created  *)
(* succeeded; a failed or false ping leaves it empty and raises, and the   *)
(* next call builds and pings a fresh connection; while it is non-empty    *)
(* every call returns it without pinging; at shutdown a non-empty handle   *)
(* is disconnected once and cleared.                                       *)
C27_HandleLifecycle == []HandleInv /\ [][HandleStep]_vars

(* a ping that failed, a fresh connection that answered, a tool served by  *)
(* it, and the shutdown that disconnected it                               *)
C27_Witness ==
    /\ Len(connection.pings) = 2
    /\ connection.pings[1].answer # "true"
    /\ connection.pings[2] = [conn |-> 2, answer |-> "true"]
    /\ last.status = "applied"
    /\ connection.disconnects = <<2>>
    /\ connection.handle = NoConnection

Carrying(objs, id) == {n \in DOMAIN objs : objs[n].EquipmentId = id}

(* an import whose document step was answered; the structures of it whose  *)
(* equipment call was sent and answered                                    *)
ImportRan ==
    /\ last'.tool = "import_sitefit_contract"
    /\ ncalls' = ncalls + 1
    /\ res_get(args'.outcomes.document, "success", TRUE)

Created(k) == res_get(args'.outcomes.equipment[k], "success", FALSE)

Handled ==
    {k \in DOMAIN args'.structures :
        /\ Created(k)
        /\ args'.strict => \A j \in 1..(k - 1) : Created(j)}

(* C29: an import of a contract leaves exactly one object carrying the id  *)
(* of each structure whose equipment call was answered, creates none for   *)
(* an id that an object carried already, and counts every such structure   *)
(* in the equipment total, with no error for it.                           *)
C29_EquipmentIdempotent ==
    [][ImportRan =>
          /\ \A k \in Handled :
                LET id == args'.structures[k].id
                IN  /\ Cardinality(Carrying(objects', id)) = 1
                    /\ Carrying(objects, id) # {}
                          => Carrying(objects', id) = Carrying(objects, id)
                    /\ \A n \in DOMAIN ret'.text :
                          ~startswith(ret'.text[n],
                                      <<"    - ", "Failed to create ">> \o id)
          /\ Len(objects') - Len(objects)
               = Cardinality({args'.structures[k].id : k \in Handled}
                             \ {objects[n].EquipmentId : n \in DOMAIN objects})
          /\ Handled # {} /\ (\A k \in DOMAIN args'.structures : Created(k))
                => <<"  - Equipment: ", ToString(Cardinality(Handled))>>
                      \in Range(ret'.text)]_vars

(* the ids of an import that name, in the document before it or among the  *)
(* objects it creates, an object carrying another id                       *)
Aliased(objs, id) ==
    \E n \in DOMAIN objs : objs[n].Name = id /\ objs[n].EquipmentId # id

(* C29 for the structures whose id is not the Name of an object carrying   *)
(* another id                                                              *)
C29_UnaliasedIdempotent ==
    [][ImportRan =>
          \A k \in Handled :
              LET id == args'.structures[k].id
              IN  ~Aliased(objects', id)
                  => /\ Cardinality(Carrying(objects', id)) = 1
                     /\ Carrying(objects, id) # {}
                           => Carrying(objects', id) = Carrying(objects, id)
                     /\ \A n \in DOMAIN ret'.text :
                           ~startswith(ret'.text[n],
                                       <<"    - ", "Failed to create ">> \o id)]_vars

====
